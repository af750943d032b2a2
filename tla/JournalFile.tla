---------------------------- MODULE JournalFile -----------------------------
(***************************************************************************)
(* FileJournal of packages/execution/src/journal.ts: one line of JSON per  *)
(* entry, appended, with a process that may be killed in the middle of a   *)
(* write.  A line is the sequence of pieces written to it, each [entry,    *)
(* whole]; the last line is the one the next write goes to.  Entries are   *)
(* numbered in the order they were appended.                               *)
(***************************************************************************)
EXTENDS Integers, Sequences, FiniteSets, SequencesExt, Sums

CONSTANTS MaxEntries, MaxCuts   \* bounds: appends; kills in the middle of one

VARIABLES lines,    \* the file
          written,  \* how many entries were appended
          cut       \* history: the entries whose write was cut off

journalVars == <<lines, written, cut>>

Init == lines = << <<>> >> /\ written = 0 /\ cut = {}

Put(piece) == [lines EXCEPT ![Len(lines)] = Append(@, piece)]

AppendNoNewline(entry) == Put([entry |-> entry, whole |-> TRUE])   \* mutant: the line is not ended

(* append: the text of the entry and the end of the line. *)
AppendEntry(entry) == Append(Put([entry |-> entry, whole |-> TRUE]), <<>>)

Appends == /\ written < MaxEntries /\ written' = written + 1
           /\ lines' = AppendEntry(written + 1) /\ UNCHANGED cut

(* Killed in append: a part of the text, or all of it and no end of line.  *)
KilledInAppend == /\ written < MaxEntries /\ written' = written + 1
                  /\ Cardinality(cut) < MaxCuts /\ cut' = cut \cup {written + 1}
                  /\ \E whole \in BOOLEAN : lines' = Put([entry |-> written + 1, whole |-> whole])

Next == Appends \/ KilledInAppend
-----------------------------------------------------------------------------
(* JSON.parse takes one whole entry; two of them on one line are no JSON.  *)
Parses(line) == Len(line) = 1 /\ line[1].whole

(* read: the lines that parse, the others are skipped. *)
Read ==
  LET good == Kept(lines, {i \in DOMAIN lines : Parses(lines[i])})
  IN  [i \in DOMAIN good |-> good[i][1].entry]

TypeOk == /\ written \in 0 .. MaxEntries /\ cut \subseteq 1 .. written
          /\ \A i \in DOMAIN lines : \A p \in ToSet(lines[i]) : p.entry \in 1 .. written

(* Inductive: the lines are in order, what the last one holds was cut off, *)
(* and every entry is in a line that parses, or was cut off or follows one *)
(* that was.                                                               *)
Unfinished == lines[Len(lines)]
JournalInv ==
  /\ TypeOk /\ lines \in Seq(Seq([entry : 1 .. written, whole : BOOLEAN])) /\ lines # <<>>
  /\ \A i, j \in DOMAIN lines : i < j =>
       \A a \in DOMAIN lines[i], b \in DOMAIN lines[j] : lines[i][a].entry < lines[j][b].entry
  /\ \A a \in DOMAIN Unfinished : Unfinished[a].entry \in cut
  /\ Unfinished # <<>> => written \in cut
  /\ \A k \in 1 .. written : \/ k \in cut \/ k - 1 \in cut
                             \/ \E i \in DOMAIN lines : Parses(lines[i]) /\ lines[i][1].entry = k

(* However often the process is killed, a restart reads entries in the     *)
(* order they were appended, each once, and misses none but one whose      *)
(* write was cut off and the one appended after it, which lands on the     *)
(* same line (the class comment speaks of the last event only).            *)
JournalKeeps ==
  /\ \A i, j \in DOMAIN Read : i < j => Read[i] < Read[j]
  /\ \A k \in 1 .. written : k \in ToSet(Read) \/ k \in cut \/ k - 1 \in cut
=============================================================================
