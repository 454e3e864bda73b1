------------------------------- MODULE MCAccess -------------------------------
(***************************************************************************)
(* Access on small instances: two replicas, requests in flight together,   *)
(* a token minted with one writing scope and the person.  The inputs are   *)
(* narrowed to those that tell the properties apart.                       *)
(***************************************************************************)
EXTENDS Access

CONSTANTS
    MaxPresented,   \* requests presented
    MaxChanges      \* changes of the switch

VARIABLES presented, changes

Symmetry == Permutations(Replicas) \cup Permutations(Requests)

MCInit == Init /\ presented = 0 /\ changes = 0

\* The token is minted first, with every scope that writes: with one only people hold
\* it is refused.
MCNext ==
    \/ /\ presented < MaxPresented
       /\ presented' = presented + 1
       /\ \E r \in Requests, p \in Replicas, cred \in Credentials, s \in WriteScopes :
             Present(r, p, cred, s)
       /\ UNCHANGED changes
    \/ /\ changes < MaxChanges
       /\ changes' = changes + 1
       /\ \E p \in Replicas, x \in Positions \ {switch} : SetSwitch(p, x)
       /\ UNCHANGED presented
    \/ /\ UNCHANGED <<presented, changes>>
       /\ \/ \E r \in Requests : Step(r) \/ SwitchUnread(r)
          \/ /\ presented = 0 /\ changes = 0
             /\ \E t \in Tokens, granted \in {WriteScopes, Scopes} :
                   Issue(t, granted, MaxLifetime + 1)
          \/ \E t \in Tokens : Revoke({t})
          \/ RevokeAll
          \/ \E p \in Replicas : CopySwitch(p)
          \/ Tick

MCSpec == MCInit /\ [][MCNext]_<<vars, presented, changes>>
=============================================================================
