---------------------------- MODULE ReplayWindow ----------------------------
(***************************************************************************)
(* The sliding window that keeps a WireGuard data packet from being taken  *)
(* twice under one key (RFC 6479, WireGuardBackend and WGPeer): a ring of  *)
(* Blocks words of Bits bits each, in which bit n stands for counter n - 1.*)
(* Packets arrive in any order and any number of times.                    *)
(***************************************************************************)
EXTENDS Integers

CONSTANTS
    Bits,       \* kReplayBits
    Blocks,     \* kReplayBlocks, a power of two: masking is the remainder
    Word        \* 2^64, the range of a counter

ASSUME ReplayAssumption ==
    /\ Bits \in Nat \ {0} /\ Blocks \in Nat \ {0} /\ Word \in Nat
    /\ Bits * Blocks + 2 <= Word

kReplayWindow == Bits * (Blocks - 1)
kRejectAfterMessages == Word - 1 - Bits * Blocks - 1

Counters == 0..(Word - 1)

VARIABLES
    fReplayCounter,     \* the highest counter taken, plus one
    fReplayBitmap,
    accepted            \* every counter taken under the current key

vars == <<fReplayCounter, fReplayBitmap, accepted>>

Init ==
    /\ fReplayCounter = 0
    /\ fReplayBitmap = [b \in 0..(Blocks - 1) |-> {}]
    /\ accepted = {}

-----------------------------------------------------------------------------
Block(n) == n \div Bits

\* Below the window.
TooOld(n) == (kReplayWindow + n) % Word < fReplayCounter

ClearsOneShort(n, b) ==
    \E i \in 1..(Block(n) - Block(fReplayCounter) - 1) : (i + Block(fReplayCounter)) % Blocks = b

\* The loop clears the blocks the window moves over, at most the whole ring.
Clears(n, b) ==
    LET moved == Block(n) - Block(fReplayCounter)
        top   == IF moved > Blocks THEN Blocks ELSE moved
    IN \E i \in 1..top : (i + Block(fReplayCounter)) % Blocks = b

\* The ring after making room for n.
Advanced(n) ==
    IF n > fReplayCounter
    THEN [b \in 0..(Blocks - 1) |-> IF Clears(n, b) THEN {} ELSE fReplayBitmap[b]]
    ELSE fReplayBitmap

\* The two early returns of _ReplayValidate; n is the counter plus one.
Considered(c, n) == c < kRejectAfterMessages /\ ~TooOld(n)

\* What _ReplayValidate returns for counter c.
Accepts(c) ==
    LET n == (c + 1) % Word
    IN Considered(c, n) /\ n % Bits \notin Advanced(n)[Block(n) % Blocks]

\* _ReplayValidate.  A counter already seen still moves the window.
ReplayValidate(c) ==
    LET n == (c + 1) % Word IN
    /\ Considered(c, n)
    /\ fReplayCounter' = IF n > fReplayCounter THEN n ELSE fReplayCounter
    /\ fReplayBitmap' = [Advanced(n) EXCEPT ![Block(n) % Blocks] = @ \cup {n % Bits}]
    /\ accepted' = IF Accepts(c) THEN accepted \cup {c} ELSE accepted

\* _ReplayReset, with every new key.
ReplayReset ==
    /\ fReplayCounter' = 0
    /\ fReplayBitmap' = [b \in 0..(Blocks - 1) |-> {}]
    /\ accepted' = {}

Next == ReplayReset \/ \E c \in Counters : ReplayValidate(c)

Spec == Init /\ [][Next]_vars

-----------------------------------------------------------------------------
\* The window's top stays below the limit on messages, and the ring is made of
\* words.
TypeOK ==
    /\ fReplayCounter \in 0..kRejectAfterMessages
    /\ fReplayBitmap \in [0..(Blocks - 1) -> SUBSET (0..(Bits - 1))]
    /\ accepted \subseteq 0..(kRejectAfterMessages - 1)

\* A counter that was taken is never taken again under the same key, however
\* far the window has moved (_ReplayValidate).
NoReplay == \A c \in accepted : ~Accepts(c)

\* A counter that was not taken yet, and is within the window, is taken: no
\* leftover bit of an earlier lap of the ring drops a good packet.
NoFalseDrop ==
    \A c \in 0..(kRejectAfterMessages - 1) :
        c \notin accepted /\ fReplayCounter <= c + 1 + kReplayWindow => Accepts(c)

\* Within its reach the window is exact: a counter is taken if and only if it was
\* not taken before (_ReplayValidate).
WindowExact == NoReplay /\ NoFalseDrop
=============================================================================
