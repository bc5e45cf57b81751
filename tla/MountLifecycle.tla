---------------------------- MODULE MountLifecycle ----------------------------
(***************************************************************************)
(* The files a FileMount keeps on disk (archive.zip and its sidecar        *)
(* directory) and every step that changes them: open with its commit and   *)
(* journal recovery, flush, compact_journal, the FULL and the INCREMENTAL  *)
(* commit, and a crash of the process between any two of those steps.      *)
(*                                                                         *)
(* The content of a mount is a version number: every edit (write, create,  *)
(* remove, truncate, rename) makes a new one, and includes[v] is the set   *)
(* of versions whose edits v contains.  The content of the files at byte   *)
(* level is the subject of PagedFile.tla.                                  *)
(***************************************************************************)
EXTENDS Naturals, FiniteSets

CONSTANTS
  SpillModes,       \* values of (dirty_limit # UNLIMITED) the callers open with
  CrashDuringOpen,  \* may the process die inside open_with_recovery?
  CompactMayFail,   \* may the rename of vmdirty.compact fail?
  UnlinkMayFail,    \* may an unlink of finish_commit_cleanup fail?
  MaxVersion,       \* bound on the versions issued
  MaxGen,           \* bound on the archive builds (fingerprints) issued
  MaxCrashes,       \* bound on the crashes
  MaxForeign        \* bound on replacements of the archive by another program

ASSUME LifecycleAssumption ==
  /\ SpillModes \subseteq BOOLEAN /\ SpillModes # {}
  /\ {CrashDuringOpen, CompactMayFail, UnlinkMayFail} \subseteq BOOLEAN
  /\ MaxVersion \in Nat \ {0} /\ MaxGen \in Nat \ {0}
  /\ MaxCrashes \in Nat /\ MaxForeign \in Nat

VARIABLES
  archive,   \* archive.zip
  tmp,       \* archive.zip.new
  intent,    \* commit.intent
  vmdirty,   \* the journal
  compact,   \* vmdirty.compact
  baks,      \* marks of the journals kept as vmdirty.bak.*
  pc,        \* the step the process is about to take
  op,        \* the public operation a flush or a commit step works for
  live,      \* version the mount shows to its user
  tier2,     \* path the open Tier 2 writes to: none, main (vmdirty), temp
  discard,   \* discard_vmdirty_after_commit
  gens,      \* last fingerprint issued
  issued,    \* last version issued
  includes,  \* history: the versions contained in each version
  promised,  \* history: last version flush() or a commit returned Ok for
  target,    \* history: what the open in progress is expected to show
  crashes, foreign

disk    == <<archive, tmp, intent, vmdirty, compact, baks>>
session == <<op, live, tier2, discard, target>>
history == <<issued, includes, promised>>
bounds  == <<gens, crashes, foreign>>
vars    == <<disk, pc, session, history, bounds>>

Versions == 1..MaxVersion
NoVersion == 0

(***************************************************************************)
(* The files.  A gen stands for the fingerprint (size, cd_hash) of a       *)
(* complete archive.  A torn archive still begins with the archive gen,    *)
(* followed by an unfinished append.                                       *)
(***************************************************************************)
Archives == [gen: Nat, ver: Versions, torn: BOOLEAN]
Intents  == [kind: {"absent", "torn", "full", "incremental"},
             pre: Nat, post: Nat]
Journals == [state: {"absent", "bare", "ready"},  \* bare: no complete header
             src: Nat,       \* header fingerprint of the source archive
             mark: 0..MaxVersion,  \* version at the last COMMIT MARKER, or 0
             tail: BOOLEAN]  \* records after the last marker

NoIntent  == [kind |-> "absent", pre |-> 0, post |-> 0]
NoJournal == [state |-> "absent", src |-> 0, mark |-> NoVersion, tail |-> FALSE]
BareJournal == [NoJournal EXCEPT !.state = "bare"]
NewJournal(src) == [NoJournal EXCEPT !.state = "ready", !.src = src]

OpenSteps == {"open.intent", "open.rmintent", "open.syncintent", "open.index",
              "open.orphans", "open.discard", "open.syncdiscard",
              "open.recover", "open.bak", "open.create", "open.header",
              "open.rejournal", "open.mark", "open.fresh", "open.freshheader"}
CommitSteps == {"intent.create", "intent.write", "intent.sync",
                "full.tmp", "full.write", "full.sync", "full.rename",
                "full.dirsync", "inc.append", "inc.write", "inc.sync",
                "clean.vmdirty", "clean.sync", "clean.intent",
                "clean.syncintent"}
SessionSteps == {"idle", "flush.data", "flush.mark", "cj.create", "cj.header",
                 "cj.rejournal", "cj.mark", "cj.rename", "cj.dirsync"}

TypeOK ==
  /\ archive \in Archives /\ tmp \in {"absent", "partial", "whole"}
  /\ intent \in Intents /\ vmdirty \in Journals /\ compact \in Journals
  /\ baks \subseteq Nat
  /\ pc \in {"closed"} \cup OpenSteps \cup CommitSteps \cup SessionSteps
  /\ op \in {"none", "flush", "compactJournal", "full", "incremental"}
  /\ live \in 0..MaxVersion /\ tier2 \in {"none", "main", "temp"}
  /\ discard \in BOOLEAN /\ target \in Nat
  /\ gens \in Nat /\ issued \in Versions /\ crashes \in Nat /\ foreign \in Nat
  /\ includes \in [Versions -> SUBSET Nat] /\ promised \in Nat

(***************************************************************************)
(* What the files say.                                                     *)
(***************************************************************************)
Recorded == intent.kind \in {"full", "incremental"}

\* Mutant: only an INCREMENTAL commit records what it will leave (ADR 0012).
MatchesPost_IncrementalOnly ==
  intent.kind = "incremental" /\ ~archive.torn /\ archive.gen = intent.post

MatchesPost == Recorded /\ ~archive.torn /\ archive.gen = intent.post

MatchesPre == Recorded /\ ~archive.torn /\ archive.gen = intent.pre

\* Mutant: the unfinished append is not recognised.
PrefixIsPre_Never == intent.kind = "torn" /\ archive.torn

PrefixIsPre == /\ intent.kind = "incremental"
               /\ archive.torn /\ archive.gen = intent.pre

\* Mutant: the fingerprint of the journal's header is not compared.
SourceChanged_Never == vmdirty.state = "ready" /\ vmdirty.src = 0

SourceChanged == vmdirty.state = "ready" /\ vmdirty.src # archive.gen

\* A journal that DefaultRecoveryHandler may touch.
Readable == vmdirty.state = "ready" /\ ~SourceChanged

\* DefaultRecoveryHandler::decide.
DefaultDecision ==
  CASE ~Readable                                         -> "Abort"
    [] Readable /\ vmdirty.mark # NoVersion            -> "RecoverCommitted"
    [] Readable /\ vmdirty.mark = NoVersion
         /\ vmdirty.tail                                  -> "Abort"
    [] OTHER                                                -> "Discard"

(* What a handler may answer: the default's decision, a refusal, a Discard, *)
(* or RecoverAll when the journal is readable and has unmarked records.  No *)
(* handler asks to replay a journal that was written over another archive.  *)
Decisions ==
  {DefaultDecision, "Abort", "Discard"} \cup
    (IF Readable /\ vmdirty.tail THEN {"RecoverAll"} ELSE {})

(* The version that is durable: what a complete open shows that replays the *)
(* journal up to its last marker.  Where no marker covers any record, the   *)
(* default handler refuses, and what is durable is the archive that a       *)
(* Discard shows.  NoVersion: a conflict or an unreadable file.             *)
Durable ==
  CASE archive.torn /\ ~PrefixIsPre  -> NoVersion
    [] MatchesPost                     -> archive.ver
    [] OTHER ->
         CASE vmdirty.state = "absent" -> archive.ver
           [] Readable -> IF vmdirty.mark # NoVersion THEN vmdirty.mark
                                                           ELSE archive.ver
           [] OTHER       -> NoVersion

\* Every record of the journal came after the last flush of anything.
Unflushed == Readable /\ vmdirty.mark = NoVersion /\ vmdirty.tail

\* What makes open fail on these files with the default handler: an archive
\* that does not parse, or the answer Abort.
DefaultRefuses ==
  \/ archive.torn /\ ~PrefixIsPre
  \/ ~MatchesPost /\ vmdirty.state # "absent" /\ DefaultDecision = "Abort"

(***************************************************************************)
(* The journal the open Tier 2 appends to.                                 *)
(***************************************************************************)
Handle == IF tier2 = "temp" THEN compact ELSE vmdirty

SetHandle(j) ==
  /\ IF tier2 = "temp" THEN compact' = j /\ UNCHANGED vmdirty
                       ELSE vmdirty' = j /\ UNCHANGED compact
  /\ UNCHANGED <<archive, tmp, intent, baks>>

Dirty == live # archive.ver

-----------------------------------------------------------------------------
Goto(from, to) == pc = from /\ pc' = to

Init ==
  /\ archive = [gen |-> 1, ver |-> 1, torn |-> FALSE]
  /\ tmp = "absent" /\ intent = NoIntent
  /\ vmdirty = NoJournal /\ compact = NoJournal /\ baks = {}
  /\ pc = "closed" /\ op = "none" /\ live = NoVersion /\ tier2 = "none"
  /\ discard = FALSE /\ target = NoVersion
  /\ gens = 1 /\ issued = 1 /\ crashes = 0 /\ foreign = 0
  /\ includes = [v \in Versions |-> IF v = 1 THEN {1} ELSE {}]
  /\ promised = 1

(***************************************************************************)
(* FileMount::open_with_recovery, step by step.                            *)
(***************************************************************************)
OpenStart ==
  /\ Goto("closed", "open.intent")
  /\ target' = Durable
  /\ UNCHANGED <<disk, op, live, tier2, discard, history, bounds>>

\* Mutant: an unfinished append is taken for resolved without truncating it.
OpenIntent_NoTruncate ==
  /\ pc = "open.intent"
  /\ discard' = MatchesPost
  /\ pc' = IF Recorded THEN "open.rmintent" ELSE "open.index"
  /\ UNCHANGED <<disk, op, live, tier2, target, history, bounds>>

\* Mutant: the intent of a commit that never happened is left in place.
OpenIntent_KeepPre ==
  /\ pc = "open.intent"
  /\ discard' = MatchesPost
  /\ pc' = IF MatchesPost \/ PrefixIsPre THEN "open.rmintent"
                                                    ELSE "open.index"
  /\ archive' = [archive EXCEPT !.torn = @ /\ ~PrefixIsPre]
  /\ UNCHANGED <<tmp, intent, vmdirty, compact, baks>>
  /\ UNCHANGED <<op, live, tier2, target, history, bounds>>

\* Compares the archive with the recorded intent; an append cut short is
\* truncated back to the archive it started from.
OpenIntent ==
  /\ pc = "open.intent"
  /\ discard' = MatchesPost
  /\ pc' = IF MatchesPost \/ MatchesPre \/ PrefixIsPre
           THEN "open.rmintent" ELSE "open.index"
  /\ archive' = [archive EXCEPT !.torn = @ /\ ~PrefixIsPre]
  /\ UNCHANGED <<tmp, intent, vmdirty, compact, baks>>
  /\ UNCHANGED <<op, live, tier2, target, history, bounds>>

OpenRemoveIntent ==
  /\ Goto("open.rmintent", "open.syncintent")
  /\ intent' = NoIntent
  /\ UNCHANGED <<archive, tmp, vmdirty, compact, baks, session, history, bounds>>

OpenSyncIntent ==
  /\ Goto("open.syncintent", "open.index")
  /\ UNCHANGED <<disk, session, history, bounds>>

\* mmap, resolve_index and write_sidecar_index: a torn archive does not parse.
OpenIndex ==
  /\ pc = "open.index"
  /\ IF archive.torn
     THEN pc' = "closed" /\ target' = NoVersion /\ discard' = FALSE
     ELSE pc' = "open.orphans" /\ UNCHANGED <<target, discard>>
  /\ UNCHANGED <<disk, op, live, tier2, history, bounds>>

\* vmdirty.compact and archive.zip.new are never adopted.
OpenOrphans ==
  /\ Goto("open.orphans", "open.discard")
  /\ compact' = NoJournal
  /\ tmp' = "absent"
  /\ UNCHANGED <<archive, intent, vmdirty, baks, session, history, bounds>>

OpenDiscard ==
  /\ pc = "open.discard"
  /\ IF discard /\ vmdirty.state # "absent"
     THEN /\ vmdirty' = NoJournal
          /\ pc' = "open.syncdiscard"
     ELSE /\ pc' = "open.recover"
          /\ UNCHANGED vmdirty
  /\ UNCHANGED <<archive, tmp, intent, compact, baks, session, history, bounds>>

OpenSyncDiscard ==
  /\ Goto("open.syncdiscard", "open.recover")
  /\ UNCHANGED <<disk, session, history, bounds>>

NoJournalToRecover ==
  /\ Goto("open.recover", "open.fresh")
  /\ vmdirty.state = "absent"
  /\ UNCHANGED <<disk, session, history, bounds>>

\* The handler aborts: RecoveryRequired, nothing is touched.
RecoveryAborts ==
  /\ Goto("open.recover", "closed")
  /\ vmdirty.state # "absent" /\ "Abort" \in Decisions
  /\ target' = NoVersion /\ discard' = FALSE
  /\ UNCHANGED <<disk, op, live, tier2, history, bounds>>

\* Discarding a marked journal is the caller's own decision to give up what
\* flush() had promised.
RecoveryDiscards ==
  /\ Goto("open.recover", "open.fresh")
  /\ vmdirty.state # "absent" /\ "Discard" \in Decisions
  /\ vmdirty' = NoJournal
  /\ UNCHANGED <<archive, tmp, intent, compact, baks>>
  /\ promised' = archive.ver
  /\ target' = archive.ver
  /\ UNCHANGED <<op, live, tier2, discard, issued, includes, bounds>>

\* replay_recovered of the records up to the last marker.
RecoverCommitted ==
  /\ Goto("open.recover", "open.bak")
  /\ vmdirty.state # "absent" /\ "RecoverCommitted" \in Decisions
  /\ live' = vmdirty.mark
  /\ UNCHANGED <<disk, op, tier2, discard, target, history, bounds>>

\* v is a version that contains everything d does and one more edit.
Issue(v, d) ==
  /\ v = issued + 1 /\ v \in Versions
  /\ issued' = v
  /\ includes' = [includes EXCEPT ![v] = {v} \cup includes[d]]

\* replay_recovered of every valid record: what RecoverCommitted restores and
\* some of the edits after it, a state of its own.
RecoverAll ==
  /\ Goto("open.recover", "open.bak")
  /\ vmdirty.state # "absent" /\ "RecoverAll" \in Decisions
  /\ live' = issued + 1
  /\ Issue(live', IF vmdirty.mark # NoVersion THEN vmdirty.mark
                                                  ELSE archive.ver)
  /\ target' = live'
  /\ UNCHANGED <<disk, op, tier2, discard, promised, bounds>>

\* Mutant: the recovered journal is deleted before its successor exists.
OpenBackup_Delete ==
  /\ Goto("open.bak", "open.create")
  /\ vmdirty' = NoJournal
  /\ UNCHANGED <<archive, tmp, intent, compact, baks, session, history, bounds>>

OpenBackup ==
  /\ Goto("open.bak", "open.create")
  /\ vmdirty' = NoJournal
  /\ baks' = baks \cup {vmdirty.mark}
  /\ UNCHANGED <<archive, tmp, intent, compact, session, history, bounds>>

OpenCreate ==
  /\ Goto("open.create", "open.header")
  /\ vmdirty' = BareJournal
  /\ UNCHANGED <<archive, tmp, intent, compact, baks, session, history, bounds>>

OpenHeader ==
  /\ Goto("open.header", "open.rejournal")
  /\ vmdirty' = NewJournal(archive.gen)
  /\ UNCHANGED <<archive, tmp, intent, compact, baks, session, history, bounds>>

\* rejournal_recovered and the DATA RECORDs of the flush.
OpenRejournal ==
  /\ Goto("open.rejournal", "open.mark")
  /\ vmdirty' = [vmdirty EXCEPT !.tail = TRUE]
  /\ UNCHANGED <<archive, tmp, intent, compact, baks, session, history, bounds>>

\* Mutant: the recovered state is journaled again but not flushed.
OpenMark_NoFlush ==
  /\ Goto("open.mark", "idle")
  /\ tier2' = "main" /\ discard' = FALSE /\ target' = NoVersion
  /\ UNCHANGED <<disk, op, live, history, bounds>>

OpenMark ==
  /\ Goto("open.mark", "idle")
  /\ vmdirty' = [vmdirty EXCEPT !.tail = FALSE, !.mark = live]
  /\ UNCHANGED <<archive, tmp, intent, compact, baks>>
  /\ tier2' = "main" /\ discard' = FALSE /\ target' = NoVersion
  /\ UNCHANGED <<op, live, history, bounds>>

OpenClean ==
  /\ Goto("open.fresh", "idle")
  /\ FALSE \in SpillModes
  /\ live' = archive.ver
  /\ discard' = FALSE /\ target' = NoVersion
  /\ UNCHANGED <<disk, op, tier2, history, bounds>>

OpenFresh ==
  /\ Goto("open.fresh", "open.freshheader")
  /\ TRUE \in SpillModes
  /\ vmdirty' = BareJournal
  /\ UNCHANGED <<archive, tmp, intent, compact, baks, session, history, bounds>>

OpenFreshHeader ==
  /\ Goto("open.freshheader", "idle")
  /\ vmdirty' = NewJournal(archive.gen)
  /\ UNCHANGED <<archive, tmp, intent, compact, baks>>
  /\ live' = archive.ver
  /\ tier2' = "main" /\ discard' = FALSE /\ target' = NoVersion
  /\ UNCHANGED <<op, history, bounds>>

Open ==
  \/ OpenStart \/ OpenIntent \/ OpenRemoveIntent \/ OpenSyncIntent
  \/ OpenIndex \/ OpenOrphans \/ OpenDiscard \/ OpenSyncDiscard
  \/ NoJournalToRecover \/ RecoveryAborts \/ RecoveryDiscards
  \/ RecoverCommitted \/ RecoverAll
  \/ OpenBackup \/ OpenCreate \/ OpenHeader \/ OpenRejournal \/ OpenMark
  \/ OpenClean \/ OpenFresh \/ OpenFreshHeader

(***************************************************************************)
(* A session.  An entry operation journals a METADATA RECORD at once; a    *)
(* write leaves a record only when it hits or spills a page to Tier 2.     *)
(***************************************************************************)
Edit ==
  /\ Goto("idle", "idle")
  /\ live' = issued + 1 /\ Issue(live', live)
  /\ \/ UNCHANGED disk
     \/ tier2 # "none" /\ SetHandle([Handle EXCEPT !.tail = TRUE])
  /\ UNCHANGED <<op, tier2, discard, target, promised, bounds>>

Flush ==
  /\ Goto("idle", "flush.data")
  /\ tier2 # "none"
  /\ op' = "flush"
  /\ UNCHANGED <<disk, live, tier2, discard, target, history, bounds>>

\* Tier2::flush: a DATA RECORD for every page resident in Tier 1 ...
FlushData ==
  /\ Goto("flush.data", "flush.mark")
  /\ SetHandle([Handle EXCEPT !.tail = @ \/ Dirty])
  /\ UNCHANGED <<session, history, bounds>>

\* ... and the COMMIT MARKER.  In a journal without records its
\* commit_sequence is 0, which recovery reads as no marker.
FlushMark ==
  /\ pc = "flush.mark"
  /\ SetHandle([Handle EXCEPT
                  !.mark = IF Handle.tail \/ @ # NoVersion THEN live ELSE @,
                  !.tail = FALSE])
  /\ CASE op = "flush" ->
            /\ pc' = "idle" /\ op' = "none" /\ promised' = live
       [] op = "compactJournal" ->
            /\ pc' = "cj.create" /\ UNCHANGED <<op, promised>>
       [] OTHER ->
            /\ pc' = "intent.create" /\ UNCHANGED <<op, promised>>
  /\ UNCHANGED <<live, tier2, discard, target, issued, includes, bounds>>

(***************************************************************************)
(* compact_journal: a new generation is built in vmdirty.compact and moved *)
(* over vmdirty.                                                           *)
(***************************************************************************)
CompactJournal ==
  /\ Goto("idle", "flush.data")
  /\ tier2 # "none"
  /\ op' = "compactJournal"
  /\ UNCHANGED <<disk, live, tier2, discard, target, history, bounds>>

CompactCreate ==
  /\ Goto("cj.create", "cj.header")
  /\ compact' = BareJournal
  /\ UNCHANGED <<archive, tmp, intent, vmdirty, baks, session, history, bounds>>

CompactHeader ==
  /\ Goto("cj.header", "cj.rejournal")
  /\ compact' = NewJournal(archive.gen)
  /\ UNCHANGED <<archive, tmp, intent, vmdirty, baks, session, history, bounds>>

\* rejournal_recovered and a DATA RECORD for every live page.
CompactRejournal ==
  /\ Goto("cj.rejournal", "cj.mark")
  /\ compact' = [compact EXCEPT !.tail = Dirty]
  /\ UNCHANGED <<archive, tmp, intent, vmdirty, baks, session, history, bounds>>

\* Mutant: the new generation replaces the old one before it has its marker.
CompactMark_Missing ==
  /\ Goto("cj.mark", "cj.rename")
  /\ UNCHANGED <<disk, session, history, bounds>>

CompactMark ==
  /\ Goto("cj.mark", "cj.rename")
  /\ compact' = [compact EXCEPT !.mark = IF compact.tail THEN live ELSE NoVersion,
                                !.tail = FALSE]
  /\ UNCHANGED <<archive, tmp, intent, vmdirty, baks, session, history, bounds>>

CompactRename ==
  /\ Goto("cj.rename", "cj.dirsync")
  /\ vmdirty' = compact /\ compact' = NoJournal
  /\ tier2' = "main"
  /\ UNCHANGED <<archive, tmp, intent, baks, op, live, discard, target,
                 history, bounds>>

\* Building the new generation fails: the mount goes on with the old journal.
CompactFails ==
  /\ pc \in {"cj.header", "cj.rejournal", "cj.mark"} /\ pc' = "idle"
  /\ op' = "none"
  /\ UNCHANGED <<disk, live, tier2, discard, target, history, bounds>>

\* The rename fails: compact_journal returns the error, and the mount goes on
\* with the new generation at its temporary path.
CompactRenameFails ==
  /\ CompactMayFail
  /\ Goto("cj.rename", "idle")
  /\ tier2' = "temp" /\ op' = "none"
  /\ UNCHANGED <<disk, live, discard, target, history, bounds>>

CompactDirSync ==
  /\ Goto("cj.dirsync", "idle")
  /\ op' = "none" /\ promised' = live
  /\ UNCHANGED <<disk, live, tier2, discard, target, issued, includes, bounds>>

Session ==
  \/ Edit \/ Flush \/ FlushData \/ FlushMark
  \/ CompactJournal \/ CompactCreate \/ CompactHeader \/ CompactRejournal
  \/ CompactMark \/ CompactFails
  \/ CompactRename \/ CompactRenameFails \/ CompactDirSync

(***************************************************************************)
(* The commits.  Both flush, record an intent with the fingerprint before  *)
(* and after, change the archive and clean up; they consume the mount.     *)
(***************************************************************************)
StartCommit(mode) ==
  /\ pc = "idle" /\ gens < MaxGen
  /\ pc' = IF tier2 = "none" THEN "intent.create" ELSE "flush.data"
  /\ op' = mode
  /\ UNCHANGED <<disk, live, tier2, discard, target, history, bounds>>

\* commit_full and the FULL branch of commit.
CommitFull == Dirty /\ StartCommit("full")

\* commit_incremental and the INCREMENTAL branch of commit.
CommitIncremental == Dirty /\ StartCommit("incremental")

\* compact: a FULL commit of a clean mount.
Compact == ~Dirty /\ StartCommit("full")

IntentCreate ==
  /\ Goto("intent.create", "intent.write")
  /\ gens' = gens + 1
  /\ intent' = [NoIntent EXCEPT !.kind = "torn"]
  /\ UNCHANGED <<archive, tmp, vmdirty, compact, baks>>
  /\ UNCHANGED <<session, history, crashes, foreign>>

IntentWrite ==
  /\ Goto("intent.write", "intent.sync")
  /\ intent' = [kind |-> op, pre |-> archive.gen,
                                      post |-> gens]
  /\ UNCHANGED <<archive, tmp, vmdirty, compact, baks, session, history, bounds>>

IntentSync ==
  /\ pc = "intent.sync"
  /\ pc' = IF op = "full" THEN "full.tmp" ELSE "inc.append"
  /\ UNCHANGED <<disk, session, history, bounds>>

FullTmp ==
  /\ Goto("full.tmp", "full.write")
  /\ tmp' = "partial"
  /\ UNCHANGED <<archive, intent, vmdirty, compact, baks, session, history, bounds>>

FullWrite ==
  /\ Goto("full.write", "full.sync")
  /\ tmp' = "whole"
  /\ UNCHANGED <<archive, intent, vmdirty, compact, baks, session, history, bounds>>

FullSync ==
  /\ Goto("full.sync", "full.rename")
  /\ UNCHANGED <<disk, session, history, bounds>>

\* Mutant: the archive is built from the journal instead of the Diff Layer.
NewArchive_FromJournal ==
  [gen |-> intent.post, ver |-> vmdirty.mark, torn |-> FALSE]

NewArchive == [gen |-> intent.post, ver |-> live, torn |-> FALSE]

FullRename ==
  /\ Goto("full.rename", "full.dirsync")
  /\ archive' = NewArchive
  /\ tmp' = "absent"
  /\ UNCHANGED <<intent, vmdirty, compact, baks, session, history, bounds>>

FullDirSync ==
  /\ Goto("full.dirsync", "clean.vmdirty")
  /\ UNCHANGED <<disk, session, history, bounds>>

IncAppend ==
  /\ Goto("inc.append", "inc.write")
  /\ archive' = [archive EXCEPT !.torn = TRUE]
  /\ UNCHANGED <<tmp, intent, vmdirty, compact, baks, session, history, bounds>>

IncWrite ==
  /\ Goto("inc.write", "inc.sync")
  /\ archive' = NewArchive
  /\ UNCHANGED <<tmp, intent, vmdirty, compact, baks, session, history, bounds>>

IncSync ==
  /\ Goto("inc.sync", "clean.vmdirty")
  /\ UNCHANGED <<disk, session, history, bounds>>

(***************************************************************************)
(* finish_commit_cleanup: the journal first, the intent last.              *)
(***************************************************************************)
CleanVmdirty ==
  /\ Goto("clean.vmdirty", "clean.sync")
  /\ \/ vmdirty' = NoJournal
     \/ UnlinkMayFail /\ UNCHANGED vmdirty
  /\ UNCHANGED <<archive, tmp, intent, compact, baks, session, history, bounds>>

CleanSync ==
  /\ Goto("clean.sync", "clean.intent")
  /\ UNCHANGED <<disk, session, history, bounds>>

CleanIntent ==
  /\ Goto("clean.intent", "clean.syncintent")
  /\ \/ intent' = NoIntent
     \/ UnlinkMayFail /\ UNCHANGED intent
  /\ UNCHANGED <<archive, tmp, vmdirty, compact, baks, session, history, bounds>>

EndSession == /\ op' = "none" /\ live' = NoVersion /\ tier2' = "none"
              /\ discard' = FALSE /\ target' = NoVersion

CommitReturns ==
  /\ Goto("clean.syncintent", "closed")
  /\ promised' = live
  /\ EndSession
  /\ UNCHANGED <<disk, issued, includes, bounds>>

Commit ==
  \/ CommitFull \/ CommitIncremental \/ Compact
  \/ IntentCreate \/ IntentWrite \/ IntentSync
  \/ FullTmp \/ FullWrite \/ FullSync \/ FullRename \/ FullDirSync
  \/ IncAppend \/ IncWrite \/ IncSync
  \/ CleanVmdirty \/ CleanSync \/ CleanIntent \/ CommitReturns

(***************************************************************************)
(* The end of a session.  A crash is also what an error return of a        *)
(* consuming call leaves behind, and dropping a mount leaves the same: no  *)
(* type here cleans up in Drop.                                            *)
(***************************************************************************)
DropMount ==
  /\ Goto("idle", "closed")
  /\ EndSession
  /\ UNCHANGED <<disk, history, bounds>>

Crash ==
  /\ pc # "closed" /\ crashes < MaxCrashes
  /\ pc \in OpenSteps => CrashDuringOpen
  /\ pc' = "closed" /\ crashes' = crashes + 1
  /\ EndSession
  /\ UNCHANGED <<disk, history, gens, foreign>>

\* While no mount is open another program installs an archive of its own.
ForeignReplace ==
  /\ pc = "closed" /\ foreign < MaxForeign /\ gens < MaxGen
  /\ issued + 1 \in Versions
  /\ foreign' = foreign + 1 /\ gens' = gens + 1 /\ issued' = issued + 1
  /\ includes' = [includes EXCEPT ![issued'] = {issued'}]
  /\ promised' = issued'
  /\ archive' = [gen |-> gens', ver |-> issued', torn |-> FALSE]
  /\ UNCHANGED <<tmp, intent, vmdirty, compact, baks>>
  /\ UNCHANGED <<pc, session, crashes>>

Next == Open \/ Session \/ Commit \/ DropMount \/ Crash \/ ForeignReplace

Spec == Init /\ [][Next]_vars

(* A call runs on one thread and none of its steps waits for another        *)
(* process, so a call that has begun goes on; and an archive that is closed *)
(* is opened again some day.                                                *)
InCall == pc # "closed" /\ pc # "idle"
CallSteps == InCall /\ (Open \/ Session \/ Commit)
FairSpec == Spec /\ WF_vars(OpenStart) /\ WF_vars(CallSteps)

-----------------------------------------------------------------------------
(***************************************************************************)
(* Properties.                                                             *)
(***************************************************************************)

\* What flush() or a commit returned Ok for is in what the next open shows that
\* gives nothing durable up, whatever crashed after it (disk.rs, the doc of flush
\* and of commit_full).
PromiseKept ==
  pc = "closed" /\ Durable # NoVersion
    => promised \in includes[Durable]

\* A file with the promised edits is somewhere on disk, be it the archive, the
\* journal or a journal kept as vmdirty.bak, in every state of every operation,
\* a recovery and the crashes inside it included.
PromiseOnDisk ==
  \E v \in {archive.ver, vmdirty.mark} \cup baks :
    v # NoVersion /\ promised \in includes[v]

\* A commit of the mount's own, finished or cut short anywhere, never looks like
\* an archive that another program replaced: no new archive lies beside an old
\* journal without the intent that explains it (finish_commit_cleanup).
CommitNeverConflicts ==
  pc = "closed" /\ SourceChanged /\ ~MatchesPost => foreign > 0

\* The default handler refuses an archive that no other program touched only
\* where a session journaled edits and ended before the first flush; the user who
\* is then asked may answer Discard, since the archive alone has every edit that
\* was promised (DefaultRecoveryHandler, the two Aborts for lack of a marker and
\* for a changed source).
RefusesOnlyUnflushed ==
  pc = "closed" /\ DefaultRefuses /\ foreign = 0
    => Unflushed /\ promised \in includes[archive.ver]

\* An archive with an unfinished append always has the intent that tells how to
\* undo it, and it is undone before open reads the archive.
TornIsRepairable ==
  archive.torn =>
    PrefixIsPre /\ pc \in {"closed", "open.intent", "inc.write"}

\* The mount never shows less than its archive: a journal older than the archive
\* beside it is discarded or refused, never replayed over it.
LiveExtendsArchive ==
  pc \in SessionSteps => archive.ver \in includes[live]

\* The intent of every commit is resolved, by the commit or by a later open.
IntentResolved == Recorded ~> ~Recorded

(* The mount implements the abstract store: an open that is not refused,     *)
(* whatever it finds and repairs, shows what was durable when it began, and  *)
(* each flush, journal compaction and commit makes the live version durable  *)
(* in one step.  A refused open changes nothing that is durable.             *)
Shown == IF pc \in OpenSteps THEN target ELSE Durable
Phase == IF pc \in SessionSteps \cup CommitSteps THEN "open" ELSE "closed"

Store == INSTANCE DurableStore WITH
           phase <- Phase, durable <- Shown, settled <- archive.ver,
           live <- IF Phase = "open" THEN live ELSE NoVersion
ImplementsStore == Store!Spec

-----------------------------------------------------------------------------
(***************************************************************************)
(* The inductive invariant.                                                *)
(***************************************************************************)
RecoverySteps == {"open.bak", "open.create", "open.header", "open.rejournal",
                  "open.mark"}
InstallSteps == {"intent.sync", "full.tmp", "full.write", "full.sync",
                 "full.rename", "inc.append", "inc.write"}

\* A step of a call knows the call it works for and the version it works on.
CallInv ==
  /\ pc \in {"flush.data", "flush.mark"} => op # "none"
  /\ pc \in CommitSteps => op \in {"full", "incremental"}
  /\ pc \in SessionSteps \cup CommitSteps \cup RecoverySteps => live \in 1..issued

\* From its creation on, the intent of an INCREMENTAL commit describes the
\* archive the commit appends to.
IntentInv ==
  /\ pc = "intent.sync" => intent.kind = op /\ intent.pre = archive.gen
  /\ pc \in {"inc.append", "inc.write"} =>
       intent.kind = "incremental" /\ intent.pre = archive.gen

\* Versions are issued in order, each contains itself, and what the mount shows
\* contains what its archive holds.
VersionInv ==
  /\ archive.ver \in 1..issued
  /\ \A v \in 1..issued : v \in includes[v]
  /\ pc \in RecoverySteps \cup SessionSteps \cup CommitSteps
       => archive.ver \in includes[live]

\* The archive a commit is about to install has the last fingerprint issued.
FreshInv ==
  /\ archive.gen <= gens
  /\ pc \in InstallSteps => intent.post = gens

\* A journal that was written over the archive beside it extends it; and no
\* journal was written over the archive a commit is about to install.
JournalOK(j) ==
  /\ j.mark <= issued /\ j.src <= gens
  /\ pc \in {"intent.write"} \cup InstallSteps => j.src < gens
  /\ j.src = archive.gen /\ j.mark # NoVersion => archive.ver \in includes[j.mark]

JournalInv == JournalOK(vmdirty) /\ JournalOK(compact)

IndInv == /\ TypeOK /\ CallInv /\ IntentInv /\ TornIsRepairable
          /\ VersionInv /\ FreshInv /\ JournalInv
===============================================================================
