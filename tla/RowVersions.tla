----------------------------- MODULE RowVersions -----------------------------
(***************************************************************************)
(* What versioned Silver rows promise: each business key has at most one   *)
(* current content, a load replaces the content of all its keys at once,   *)
(* and what a key holds is what the last load naming it said.  A key that  *)
(* was ever recorded is never without a current content.                   *)
(***************************************************************************)
CONSTANTS Loads, Keys, Contents, NoContent

VARIABLES current,   \* per key: the content a reader sees
          applied,   \* the loads that took effect
          says       \* per load: the content it carries, for the keys it names

vars == <<current, applied, says>>

Init ==
    /\ current \in [Keys -> Contents \union {NoContent}]
    /\ applied = {}
    /\ says \in [Loads -> UNION {[ks -> Contents] : ks \in SUBSET Keys}]

Apply(t) ==
    /\ t \notin applied
    /\ applied' = applied \union {t}
    /\ current' = [k \in Keys |-> IF k \in DOMAIN says[t] THEN says[t][k] ELSE current[k]]
    /\ UNCHANGED says

Next == \E t \in Loads : Apply(t)

Spec == Init /\ [][Next]_vars
=============================================================================
