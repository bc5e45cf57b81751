----------------------------- MODULE DurableStore -----------------------------
(***************************************************************************)
(* What a FileMount promises its user, without its files.  A closed store  *)
(* holds one durable version; an open one shows a live version, which each *)
(* edit changes at once and which becomes durable as a whole, at one       *)
(* moment of a flush, of a journal compaction or of a commit, or not at    *)
(* all.                                                                    *)
(***************************************************************************)
EXTENDS Naturals

VARIABLES
  phase,    \* "closed" or "open"
  live,     \* the version an open store shows, 0 when closed
  durable,  \* the version an open shows unless it is refused, 0 if none can
  settled,  \* the version in the archive itself
  issued    \* the last version made

Init ==
  /\ phase = "closed" /\ live = 0
  /\ durable = 1 /\ settled = 1 /\ issued = 1

\* An open shows exactly what was durable.
Open ==
  /\ phase = "closed" /\ durable # 0
  /\ phase' = "open" /\ live' = durable
  /\ UNCHANGED <<durable, settled, issued>>

Edit ==
  /\ phase = "open"
  /\ issued' = issued + 1 /\ live' = issued'
  /\ UNCHANGED <<phase, durable, settled>>

\* A flush or a journal compaction: everything up to now, into the journal.
Persist ==
  /\ phase = "open"
  /\ durable' = live
  /\ UNCHANGED <<phase, live, settled, issued>>

\* A commit: everything up to now, into the archive.
Settle ==
  /\ phase = "open"
  /\ durable' = live /\ settled' = live
  /\ UNCHANGED <<phase, live, issued>>

\* The session ends, by a commit, a drop or a crash.
Close ==
  /\ phase = "open"
  /\ phase' = "closed" /\ live' = 0
  /\ UNCHANGED <<durable, settled, issued>>

\* The user tells recovery to discard the journal ...
GiveUp ==
  /\ phase = "closed"
  /\ durable' = settled
  /\ UNCHANGED <<phase, live, settled, issued>>

\* ... or to adopt the edits that no flush covered.
AdoptAll ==
  /\ phase = "closed"
  /\ issued' = issued + 1 /\ durable' = issued'
  /\ UNCHANGED <<phase, live, settled>>

\* Another program installs an archive of its own; beside a journal of the
\* old one it cannot be shown before the user has decided.
Replace ==
  /\ phase = "closed"
  /\ issued' = issued + 1 /\ settled' = issued'
  /\ durable' \in {0, issued'}
  /\ UNCHANGED <<phase, live>>

Next == \/ Open \/ Edit \/ Persist \/ Settle \/ Close
        \/ GiveUp \/ AdoptAll \/ Replace

Spec == Init /\ [][Next]_<<phase, live, durable, settled, issued>>

===============================================================================
