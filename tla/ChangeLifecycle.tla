-------------------------- MODULE ChangeLifecycle --------------------------
(***************************************************************************)
(* What the change queue promises, one step per decision: a proposed       *)
(* change is either written to Keycloak and then approved, or rejected     *)
(* without being written; both are final and happen once.  A change that   *)
(* has met one of the faults the design does not exclude is disturbed, and *)
(* nothing is promised about it but that it stays in the bucket.           *)
(***************************************************************************)

CONSTANT Changes

VARIABLES status,     \* the state of each change, as an observer reads it
          touched,    \* changes of which something was written to Keycloak
          disturbed   \* changes that have met a fault

lvars == <<status, touched, disturbed>>

Init == /\ status \in [Changes -> {"absent", "Pending"}]
        /\ touched = {}
        /\ disturbed = {}

Propose(c) == /\ status[c] = "absent"
              /\ status' = [status EXCEPT ![c] = "Pending"]
              /\ UNCHANGED <<touched, disturbed>>

\* An approval starts to write the change to Keycloak.
Write(c) == /\ status[c] = "Pending"
            /\ c \notin touched
            /\ touched' = touched \cup {c}
            /\ UNCHANGED <<status, disturbed>>

Approve(c) == /\ status[c] = "Pending"
              /\ c \in touched
              /\ status' = [status EXCEPT ![c] = "Approved"]
              /\ UNCHANGED <<touched, disturbed>>

\* A rejection by an admin, or the proposer's cancellation.
Reject(c) == /\ status[c] = "Pending"
             /\ c \notin touched
             /\ status' = [status EXCEPT ![c] = "Rejected"]
             /\ UNCHANGED <<touched, disturbed>>

\* A fault happens to c, or a later step of a change that has met one.
Disturb(c) == /\ disturbed' = disturbed \cup {c}
              /\ touched' \in {touched, touched \cup {c}}
              /\ \E s \in {"Pending", "Approved", "Rejected"} :
                   /\ status[c] # "absent" \/ s = "Pending"
                   /\ status' \in {status, [status EXCEPT ![c] = s]}

Next == \E c \in Changes :
          Propose(c) \/ Write(c) \/ Approve(c) \/ Reject(c) \/ Disturb(c)

Spec == Init /\ [][Next]_lvars
=============================================================================
