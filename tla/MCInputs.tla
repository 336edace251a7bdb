------------------------------- MODULE MCInputs ------------------------------
(* Three parts that are used by one coroutine at a time, side by side: a      *)
(* behaviour is one scan of a text, one call of a handler, or one use of      *)
(* lists.                                                                     *)
EXTENDS JsonComments, Binding, QSequence

Params == [name : {"a", "data"}, kind : {"any", "scalar", "model"}, default : {"none", "fits", "unfit"}]
            \cup {[name |-> "frame", kind |-> "frame", default |-> "none"]}
Handlers == {<<>>} \cup {<<p>> : p \in Params} \cup {pair \in Params \X Params : pair[1].name # pair[2].name}
OneField == {"a"}

Scalar == [kind |-> "scalar"]
Dicts(names, values) == UNION {[N -> values] : N \in SUBSET names}
Sent == Dicts({"a", "data", "body"}, {Scalar} \cup {Dict(d) : d \in Dicts({"a", "data"}, {Scalar})})

NotScanned == raw = <<>> /\ pos = 1 /\ in_string = NoQuote /\ escape = FALSE /\ result = <<>>
NotCalled == signature = <<>> /\ content = <<>> /\ envelope = NoEnvelope /\ args = <<>> /\ raised = FALSE

Numbers == 1 .. 2
Odd == {1}
Doubled == [n \in Numbers |-> 2]
NoLists == ListInit(<<>>)

Init ==
    \/ ScanInit /\ NotCalled /\ NoLists
    \/ NotScanned /\ BindInit /\ NoLists
    \/ NotScanned /\ NotCalled /\ QInit
Next ==
    \/ ScanNext /\ UNCHANGED <<binding, lazy>>
    \/ BindNext /\ UNCHANGED <<scan, lazy>>
    \/ NotScanned /\ NotCalled /\ QNext /\ UNCHANGED <<scan, binding>>
Spec == Init /\ [][Next]_<<scan, binding, lazy>>
=============================================================================
