------------------------------- MODULE Binding -------------------------------
(***************************************************************************)
(* execute_validated: the arguments a handler gets from the payload of a   *)
(* frame. A payload is a dictionary, perhaps one that wraps another under  *)
(* a name that says no more than that. The parameters are bound one after  *)
(* the other, and the first that cannot be ends the call.                  *)
(***************************************************************************)
EXTENDS Naturals, Sequences, Lists

CONSTANTS
    Signatures, \* the handlers: sequences of [name, kind, default]; a default is
                \* "none", or a value that "fits" the annotation, or is "unfit"
    Fields,     \* what the model of a parameter of kind "model" requires
    Contents    \* what callers send: functions from names to values

Envelopes == <<"data", "payload", "body", "params">>

ASSUME BindingAssumption == Fields # {} /\ \A s \in Signatures : Len(s) \in Nat

VARIABLES
    signature,
    content,  \* what the caller means to send
    envelope, \* the name it is wrapped under, or None
    args,     \* the arguments so far
    raised

binding == <<signature, content, envelope, args, raised>>

NoEnvelope == "no envelope"
Dict(items) == [kind |-> "dict", items |-> items]
IsDict(value) == value.kind = "dict"

BindInit ==
    /\ signature \in Signatures
    /\ content \in Contents
    /\ envelope \in {NoEnvelope} \cup {Envelopes[k] : k \in 1 .. Len(Envelopes)}
    /\ args = <<>>
    /\ raised = FALSE

Received == IF envelope = NoEnvelope THEN content ELSE [n \in {envelope} |-> Dict(content)]

-----------------------------------------------------------------------------
(* payload_maps: the payload, then the dictionaries it wraps.               *)

Nested(p) ==
    LET wrapped == At(Envelopes, {k \in 1 .. Len(Envelopes) : Envelopes[k] \in DOMAIN p /\ IsDict(p[Envelopes[k]])})
    IN  [k \in 1 .. Len(wrapped) |-> p[wrapped[k]].items]
Maps(p) == IF DOMAIN p = {} THEN <<>> ELSE <<p>> \o Nested(p)

Holders(p, name) == {k \in 1 .. Len(Maps(p)) : name \in DOMAIN Maps(p)[k]}
LookedUp(p, name) ==
    LET first == CHOOSE k \in Holders(p, name) : \A l \in Holders(p, name) : k <= l
    IN  Maps(p)[first][name]

\* What a single model is read from: the payload, or the first dictionary it
\* wraps if it has no field of the model itself.
SourceFault(p) == p
Source(p) == IF DOMAIN p \cap Fields = {} /\ Len(Maps(p)) > 1 THEN Maps(p)[2] ELSE p

\* model_validate ignores what the model does not ask for.
Failure == [kind |-> "raises"]
Validated(items) ==
    IF Fields \subseteq DOMAIN items THEN [kind |-> "model", items |-> [f \in Fields |-> items[f]]] ELSE Failure

\* For a model, anything that is not a dictionary is passed as it is.
Converted(param, value) ==
    CASE param.kind = "model" /\ IsDict(value)  -> Validated(value.items)
      [] param.kind = "scalar" /\ IsDict(value) -> Failure
      [] OTHER                                  -> value

\* A parameter with an annotation has its default validated too.
Default(param) ==
    IF param.default = "none" \/ (param.default = "unfit" /\ param.kind # "any") THEN Failure ELSE [kind |-> "default"]
Argument(param, p) ==
    CASE param.kind = "frame"       -> [kind |-> "frame"]
      [] Holders(p, param.name) # {} -> Converted(param, LookedUp(p, param.name))
      [] OTHER                      -> Default(param)

IsSingleModel == Len(signature) = 1 /\ signature[1].kind = "model"
Value(p, k) == IF IsSingleModel THEN Validated(Source(p)) ELSE Argument(signature[k], p)

-----------------------------------------------------------------------------
BindArgument ==
    /\ ~raised /\ Len(args) < Len(signature)
    /\ LET value == Value(Received, Len(args) + 1)
       IN  /\ args' = IF value = Failure THEN args ELSE Append(args, value)
           /\ raised' = (value = Failure)
    /\ UNCHANGED <<signature, content, envelope>>

BindNext == BindArgument

BindSpec == BindInit /\ [][BindNext]_binding

-----------------------------------------------------------------------------
(* Properties.                                                              *)

\* What the caller sends tells envelopes and names apart: it has no dictionary
\* under the name of one, and nothing that is asked for is called as the one
\* that is used.
IsPlainContent ==
    /\ Nested(content) = <<>>
    /\ envelope \notin Fields
    /\ \A k \in 1 .. Len(signature) : signature[k].name # envelope

\* A handler gets the same arguments, and fails at the same one, whether its
\* caller has wrapped the payload or not.
EnvelopeIsTransparent ==
    IsPlainContent =>
        /\ \A k \in 1 .. Len(args) : args[k] = Value(content, k)
        /\ raised => Value(content, Len(args) + 1) = Failure
=============================================================================
