------------------------------- MODULE Stores -------------------------------
(***************************************************************************)
(* Further components side by side, as in Components: the audit log, the   *)
(* journal file and the live channel.  Their bounds are constants, so that *)
(* StoreProofs holds for all of them.                                      *)
(***************************************************************************)
EXTENDS Slots, Integers, Sequences, FiniteSets

CONSTANTS
  AuditBodies, AuditLegacy, AuditRows, AuditDamage,   \* AuditLog
  JournalEntries, JournalCuts,                        \* JournalFile
  PageTokens, PageTrades, PageModes, PageSockets,     \* LiveFeed
  PageLogs, PageReplayed, PageShown, PageEvents, PageFaults

ASSUME AuditAssumption   == {AuditLegacy, AuditRows, AuditDamage} \subseteq Nat
ASSUME JournalAssumption == {JournalEntries, JournalCuts} \subseteq Nat
(* The page shows at least the lines that are replayed: 50 of 300. *)
ASSUME PageAssumption ==
  /\ {PageLogs, PageReplayed, PageShown, PageEvents, PageFaults} \subseteq Nat /\ PageReplayed <= PageShown
  /\ PageSockets \subseteq Nat
-----------------------------------------------------------------------------
Audit == INSTANCE AuditLog WITH
  Bodies <- AuditBodies, Legacy <- AuditLegacy, MaxRows <- AuditRows, MaxDamage <- AuditDamage,
  rows <- v1, written <- v2, damage <- v3, cutShort <- v4

Journal == INSTANCE JournalFile WITH
  MaxEntries <- JournalEntries, MaxCuts <- JournalCuts, lines <- v1, written <- v2, cut <- v3

Page == INSTANCE LiveFeed WITH
  Tokens <- PageTokens, Trades <- PageTrades, StrictModes <- PageModes, Sockets <- PageSockets,
  MaxLogs <- PageLogs, Replayed <- PageReplayed, MaxShown <- PageShown,
  MaxEvents <- PageEvents, MaxFaults <- PageFaults,
  server <- v1, sockets <- v2, page <- v3, client <- v4, raced <- v5, missed <- v6,
  events <- v7, faults <- v8
=============================================================================
