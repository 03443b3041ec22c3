-------------------------- MODULE MCAdminMembership --------------------------
(* AdminMembership with the sets of the cfg. *)
EXTENDS AdminMembership

\* Bound: after a change with another tool nothing late arrives and one request
\* of the recover route runs at a time.  SubmittedIsSettled holds from such a
\* change on, so what is cut off cannot violate it.
OneTrouble ==
    outside =>
        /\ late = {}
        /\ \A r, other \in Requests :
             request[r] # IdleRequest /\ request[other] # IdleRequest => r = other
=============================================================================
