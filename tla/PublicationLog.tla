--------------------------- MODULE PublicationLog ---------------------------
(***************************************************************************)
(* What the revision history of publications promises its readers: each    *)
(* publication is a log of versions that only grows at its end.  Nothing   *)
(* is rewritten, except that the newest version can be certified once and  *)
(* that an older version nobody certified can lose its content.            *)
(***************************************************************************)
EXTENDS Naturals, Sequences

CONSTANTS Ids, Versions, Erased, Null

VARIABLE log

Init == log = [id \in Ids |-> <<>>]

OnlyChanges(ids) == /\ DOMAIN log' = Ids
                    /\ \A id \in Ids \ ids : log'[id] = log[id]

\* One more version at the end of the log.
Extended(id) ==
    /\ Len(log'[id]) = Len(log[id]) + 1
    /\ \A r \in 1..Len(log[id]) : log'[id][r] = log[id][r]
    /\ log'[id][Len(log'[id])] \in Versions

Write(id) == Extended(id) /\ OnlyChanges({id})

\* One publication goes on without some of its targets; a new one starts with
\* what both had in common and a second version of its own.
Fork(id, new) ==
    /\ log[id] # <<>>
    /\ log[new] = <<>>
    /\ Extended(id)
    /\ log'[new] \in Versions \X Versions
    /\ OnlyChanges({id, new})

Certify(id) ==
    /\ log[id] # <<>>
    /\ LET r == Len(log[id])
       IN  /\ log[id][r].certifiedBy = Null
           /\ log'[id][r].certifiedBy # Null
           /\ log' = [log EXCEPT ![id][r].certifiedBy = log'[id][r].certifiedBy]

Erase(id) ==
    \E r \in 1..Len(log[id]) :
        /\ r < Len(log[id])
        /\ log[id][r].certifiedBy = Null
        /\ log' = [log EXCEPT ![id][r].doc = [@ EXCEPT !.body = Erased, !.reason = Null]]

Next == \E id \in Ids : \/ Write(id)
                        \/ \E new \in Ids \ {id} : Fork(id, new)
                        \/ Certify(id)
                        \/ Erase(id)

Spec == Init /\ [][Next]_log
=============================================================================
