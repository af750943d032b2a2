------------------------------ MODULE AuditLog ------------------------------
(***************************************************************************)
(* The hash-chained audit log twice over: AuditChain of packages/security  *)
(* and the audit_log table of the server's db.ts, which also holds rows    *)
(* written before chaining existed (hash NULL).                            *)
(*                                                                         *)
(* A hash is what it was computed from, <<previous hash, sequence number,  *)
(* body>>: equal only for equal inputs.  The store may be damaged: a row   *)
(* edited, removed or exchanged with the next.                             *)
(***************************************************************************)
EXTENDS Integers, Sequences, FiniteSets, SequencesExt, Sums

CONSTANTS Bodies, Legacy,      \* Legacy: rows without a hash at first
          MaxRows, MaxDamage

VARIABLES rows,      \* the stored entries, in rowid order
          written,   \* history: bodies in the order they were recorded
          damage,    \* history: how often the store was damaged
          cutShort   \* history: the damage took the newest entry

vars == <<rows, written, damage, cutShort>>

Genesis == <<>>

HashEntry(prevHash, seq, body) == <<prevHash, seq, body>>

Chained(table) == Kept(table, {i \in DOMAIN table : table[i].chained})

(* Mutant of HeadSeq: rows written before chaining are counted too. *)
HeadSeqAll(table) == Len(table)

(* auditHead: sequence number and hash over the chained rows alone.        *)
HeadSeq(table)  == Len(Chained(table))
HeadHash(table) == IF Chained(table) = <<>> THEN Genesis ELSE Last(Chained(table)).hash

Entry(body) ==
  [chained |-> TRUE, seq |-> HeadSeq(rows), body |-> body, prevHash |-> HeadHash(rows),
   hash |-> HashEntry(HeadHash(rows), HeadSeq(rows), body)]

Unchained == [chained |-> FALSE, seq |-> 0, body |-> "old", prevHash |-> Genesis, hash |-> Genesis]

Before(entries, i) == IF i = 1 THEN Genesis ELSE entries[i - 1].hash

(* verifyChain of the package: sequence, linkage, content.                 *)
VerifyChain(entries) ==
  \A i \in DOMAIN entries :
     /\ entries[i].seq = i - 1
     /\ entries[i].prevHash = Before(entries, i)
     /\ entries[i].hash = HashEntry(Before(entries, i), entries[i].seq, entries[i].body)

(* verifyAuditChain of the server: the table has no column for the sequence number. *)
VerifyAuditChain(table) ==
  LET entries == Chained(table)
  IN  \A i \in DOMAIN entries :
         /\ entries[i].prevHash = Before(entries, i)
         /\ entries[i].hash = HashEntry(Before(entries, i), i - 1, entries[i].body)

Init == /\ \E n \in 0 .. Legacy : rows = [k \in 1 .. n |-> Unchained]
        /\ written = <<>> /\ damage = 0 /\ cutShort = FALSE

(* append and recordAudit *)
Record(body) ==
  /\ Len(written) < MaxRows
  /\ rows' = Append(rows, Entry(body)) /\ written' = Append(written, body)
  /\ UNCHANGED <<damage, cutShort>>

Damages == damage < MaxDamage /\ damage' = damage + 1 /\ UNCHANGED written

Edit(i, body) ==
  /\ Damages /\ rows[i].chained /\ rows[i].body # body
  /\ rows' = [rows EXCEPT ![i].body = body] /\ UNCHANGED cutShort

Lose(i) ==
  /\ Damages /\ rows[i].chained
  /\ rows' = RemoveAt(rows, i)
  /\ cutShort' = (cutShort \/ \A k \in DOMAIN rows : rows[k].seq <= rows[i].seq)

Exchange(i) ==
  /\ Damages /\ i < Len(rows) /\ rows[i].chained
  /\ rows' = [rows EXCEPT ![i] = rows[i + 1], ![i + 1] = rows[i]] /\ UNCHANGED cutShort

Next == \/ \E body \in Bodies : Record(body)
        \/ \E i \in DOMAIN rows : \/ Lose(i) \/ Exchange(i)
                                  \/ \E body \in Bodies : Edit(i, body)

Spec == Init /\ [][Next]_vars
-----------------------------------------------------------------------------
TypeOk == /\ Len(rows) <= MaxRows + Legacy /\ written \in Seq(Bodies)
          /\ damage \in 0 .. MaxDamage /\ cutShort \in BOOLEAN

(* What damage leaves of each row: its hash was computed from its previous *)
(* hash, its number and some body.                                         *)
RowsStay ==
  /\ rows \in Seq(ToSet(rows)) /\ Len(rows) <= Len(written) + Legacy /\ Len(written) <= MaxRows
  /\ \A i \in DOMAIN rows :
       /\ DOMAIN rows[i] = {"chained", "seq", "body", "prevHash", "hash"}
       /\ rows[i].chained \in BOOLEAN /\ rows[i].seq \in Nat /\ (~rows[i].chained => rows[i].seq = 0)
       /\ rows[i].chained => \E b \in Bodies : rows[i].hash = HashEntry(rows[i].prevHash, rows[i].seq, b)

(* Nothing is missing: the numbers are those of what was recorded, each    *)
(* once, and each hash was computed from the body that was recorded.       *)
Whole ==
  /\ \A i \in DOMAIN rows : rows[i].chained =>
       /\ rows[i].seq < Len(written)
       /\ rows[i].hash = HashEntry(rows[i].prevHash, rows[i].seq, written[rows[i].seq + 1])
  /\ \A i, j \in DOMAIN rows :
       rows[i].chained /\ rows[j].chained /\ rows[i].seq = rows[j].seq => i = j
  /\ \A q \in 0 .. Len(written) - 1 : \E i \in DOMAIN rows : rows[i].chained /\ rows[i].seq = q

(* Below the number of some row there are too few others.                  *)
Numbered(s) == {i \in DOMAIN rows : rows[i].chained /\ rows[i].seq <= s}
Gap == \E i \in DOMAIN rows : rows[i].chained /\ \E s \in 0 .. rows[i].seq - 1 : Cardinality(Numbered(s)) <= s

(* Inductive: a row that is lost leaves a gap, unless it was the newest,   *)
(* and no later entry closes one.                                          *)
AuditInv == /\ TypeOk /\ RowsStay
            /\ damage = 0 => VerifyChain(Chained(rows))
            /\ cutShort \/ Whole \/ Gap

Stored == [i \in DOMAIN Chained(rows) |-> Chained(rows)[i].body]

(* No false alarm and no missed damage: what was only appended to          *)
(* verifies, whatever unchained rows stand before it; what verifies is     *)
(* what was recorded, unless the newest entry was taken away (nothing      *)
(* outside the table remembers its head); and both verifications agree.    *)
DamageShows ==
  /\ damage = 0 => VerifyAuditChain(rows)
  /\ VerifyAuditChain(rows) => Stored = written \/ cutShort
  /\ VerifyAuditChain(rows) <=> VerifyChain(Chained(rows))
=============================================================================
