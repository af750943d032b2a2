---------------------------- MODULE SignalIntake ----------------------------
(***************************************************************************)
(* packages/security/src/signalAuth.ts: the verifier of external signals   *)
(* and its in-memory nonce store.  The source may send a signal any number *)
(* of times, the network delivers it when it likes, the process restarts.  *)
(* A signature is good or not; the clock does not run backwards.           *)
(***************************************************************************)
EXTENDS Integers, Functions

CONSTANTS Nonces, WindowMs, FutureTolerance, MaxNow

VARIABLES clock,
          nonces,      \* MemoryNonceStore.nonces: nonce -> expiry
          taken,       \* history: signals accepted in this life of the process
          twice        \* history: a signal was accepted again in the same life

vars == <<clock, nonces, taken, twice>>

Signals == [timestamp : 0 .. MaxNow + FutureTolerance, nonce : Nonces, signed : BOOLEAN]

Absent == <<>>

Init == clock = 0 /\ nonces = Absent /\ taken = {} /\ twice = FALSE

Expired(nonce) == nonces[nonce] < clock

(* seen: an expired nonce is forgotten on the way. *)
Seen(nonce) == nonce \in DOMAIN nonces /\ ~Expired(nonce)

Pruned == Restrict(nonces, {n \in DOMAIN nonces : ~Expired(n)})

Put(nonce, expiry) ==
  [n \in DOMAIN Pruned \cup {nonce} |-> IF n = nonce THEN expiry ELSE nonces[n]]

(* Mutant of Remembered: the nonce lives for one window from now. *)
RememberedFromNow(signal) == Put(signal.nonce, clock + WindowMs)

Remembered(signal) == Put(signal.nonce, signal.timestamp + WindowMs)

TooEarly(signal) == signal.timestamp > clock + FutureTolerance
TooLate(signal)  == signal.timestamp < clock - WindowMs

(* verify, for a well-formed signal; a forged one leaves the store alone.  *)
Verify(signal) ==
  /\ IF TooEarly(signal) \/ TooLate(signal) \/ ~signal.signed
       THEN UNCHANGED <<nonces, taken, twice>>
     ELSE IF Seen(signal.nonce)
       THEN UNCHANGED <<nonces, taken, twice>>
     ELSE /\ nonces' = Remembered(signal)
          /\ taken' = taken \cup {signal}
          /\ twice' = (twice \/ signal \in taken)
  /\ UNCHANGED clock

(* The store is lost with the process. *)
Restart == nonces' = Absent /\ taken' = {} /\ UNCHANGED <<clock, twice>>

TimePasses == clock < MaxNow /\ clock' = clock + 1 /\ UNCHANGED <<nonces, taken, twice>>

Next == TimePasses \/ Restart \/ \E signal \in Signals : Verify(signal)

Spec == Init /\ [][Next]_vars
-----------------------------------------------------------------------------
TypeOk == /\ clock \in 0 .. MaxNow /\ taken \subseteq Signals /\ twice \in BOOLEAN
          /\ \A n \in DOMAIN nonces : n \in Nonces /\ nonces[n] \in Nat

(* A signal is accepted at most once in the life of a process, at whatever *)
(* moment it is repeated and however far ahead of the clock it was stamped *)
(* (within the tolerance): its nonce outlives its window.  After a restart *)
(* it is accepted again: nothing is claimed across lives.                  *)
AcceptedOnce == ~twice
-----------------------------------------------------------------------------
(* The inductive invariant behind AcceptedOnce, of PartsProofs: a signal   *)
(* that is still in its window has its nonce in the store, and the entry   *)
(* lives as long as the signal does.                                       *)
Expiry(signal) == signal.timestamp + WindowMs

HeldInStore(signal) ==
  Expiry(signal) >= clock =>
    signal.nonce \in DOMAIN nonces /\ nonces[signal.nonce] >= Expiry(signal)

IntakeInv == /\ clock \in Int
             /\ \A n \in DOMAIN nonces : nonces[n] \in Int
             /\ taken \subseteq Signals
             /\ \A signal \in taken : HeldInStore(signal)
             /\ ~twice
=============================================================================
