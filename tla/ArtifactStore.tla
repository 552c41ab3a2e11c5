--------------------------- MODULE ArtifactStore ---------------------------
(* The promise of the evidence store to those who read it: an artifact     *)
(* identity is bound to its content once and for ever.  Which identities   *)
(* and contents there are is the implementation's business.                *)

VARIABLE artifacts   \* the set of <<identity, content>> that are evidence

Init == artifacts = {}

Publish(identity, content) ==
    /\ \A a \in artifacts : a[1] # identity
    /\ artifacts' = artifacts \cup {<<identity, content>>}

Next == \E a \in artifacts' \ artifacts : Publish(a[1], a[2])

Spec == Init /\ [][Next]_artifacts
=============================================================================
