------------------------------ MODULE Entropy ------------------------------
(***************************************************************************)
(* The entropy collector of the package (mbedTLS.f).  While the user       *)
(* writes, a delayed send samples the pen; batches of samples are packed,  *)
(* two to a byte, into prefs.entropy, a slot of a soup entry.  mbedtls     *)
(* takes bytes from its front through GetEntropyData.  A change of prefs   *)
(* is written to the soup by EntryChangeXmit, which throws when the store  *)
(* is full or locked; the Newton may be reset at any time, and prefs is    *)
(* then what the soup has.                                                 *)
(*                                                                         *)
(* A sample is a number, so that using one twice shows.  prefs.entropy is  *)
(* the sequence of its samples, NIL when it is nil.                        *)
(***************************************************************************)
EXTENDS Naturals, Sequences

CONSTANTS
    NIL,
    MaxSamples,   \* bound: pen samples taken in one behaviour
    MaxSeeds,     \* bound: seeds written
    MaxTimers,    \* bound: delayed sends scheduled at a time
    Batch,        \* samples that make CollectEntropy save (64 in the code)
    Limits,       \* values of the collector's limit, in bytes
    DefaultLimit, \* the limit of a new collector (4096 in the code)
    Gather,       \* bytes mbedtls asks for (MBEDTLS_ENTROPY_MAX_GATHER)
    StoreFaults   \* may EntryChangeXmit throw

ASSUME EntropyAssumption ==
    /\ MaxSamples \in Nat /\ MaxSeeds \in Nat /\ MaxTimers \in Nat \ {0}
    /\ Batch \in Nat \ {0} /\ Gather \in Nat
    /\ Limits \subseteq Nat /\ DefaultLimit \in Limits
    /\ NIL \notin Seq(1 .. MaxSamples)
    /\ StoreFaults \in BOOLEAN

VARIABLES
    penEntropy,  \* samples not packed yet
    entropy,     \* prefs.entropy in memory
    nvSeed,      \* prefs.nvSeed in memory
    soup,        \* the soup entry: [entropy, nvSeed]
    scheduled, paused, limit,  \* slots of the collector
    timers,      \* delayed sends of CollectEntropy waiting
    samples,     \* samples taken so far
    handed,      \* history: what mbedtls got
    stopped      \* history: CollectEntropy ended without scheduling itself,
                 \* at the limit or by an exception

entVars == <<penEntropy, entropy, nvSeed, soup, scheduled, paused, limit,
             timers, samples, handed, stopped>>
prefsVars == <<penEntropy, entropy, nvSeed, soup>>

\* A restart runs InstallScript: prefs from the soup, a new collector and a
\* first delayed send (which does not set scheduled).
Started(sp) ==
    /\ penEntropy' = <<>>
    /\ entropy' = sp.entropy /\ nvSeed' = sp.nvSeed
    /\ scheduled' = FALSE /\ paused' = FALSE /\ limit' = DefaultLimit
    /\ timers' = 1 /\ stopped' = FALSE

EntInit ==
    /\ penEntropy = <<>> /\ entropy = NIL /\ nvSeed = 0
    /\ soup = [entropy |-> NIL, nvSeed |-> 0]
    /\ scheduled = FALSE /\ paused = FALSE /\ limit = DefaultLimit
    /\ timers = 1 /\ samples = 0 /\ handed = <<>> /\ stopped = FALSE

Bytes(seq) == Len(seq) \div 2

\* EntryChangeXmit writes what prefs has become, or throws.
EntryChangeXmit == soup' = [entropy |-> entropy', nvSeed |-> nvSeed']
EntryChangeThrows == StoreFaults /\ UNCHANGED soup

(***************************************************************************)
(* SaveCollectedEntropy packs an even number of samples; an odd one stays. *)
(***************************************************************************)
Even(pen) == 2 * (Len(pen) \div 2)

Packed(pen) == SubSeq(pen, 1, Even(pen))

Rest(pen) == SubSeq(pen, Even(pen) + 1, Len(pen))
Munged(ent, pen) == IF ent = NIL THEN Packed(pen) ELSE ent \o Packed(pen)

\* The new values of prefs.entropy and penEntropy, before the soup is written.
SaveCollectedEntropy(pen) ==
    /\ entropy' = Munged(entropy, pen)
    /\ penEntropy' = Rest(pen)
    /\ UNCHANGED nvSeed

Schedules == scheduled' = TRUE /\ timers' = timers

\* The tick has taken its sample, scheduled is nil: once more, unless paused.
CollectEntropyEnds ==
    IF paused THEN scheduled' = FALSE /\ timers' = timers - 1
    ELSE Schedules

CollectEntropy ==
    /\ timers > 0
    /\ UNCHANGED <<paused, limit, handed>>
    /\ \/ /\ entropy # NIL /\ Bytes(entropy) >= limit
          /\ scheduled' = FALSE /\ timers' = timers - 1 /\ stopped' = TRUE
          /\ UNCHANGED <<prefsVars, samples>>
       \/ /\ ~(entropy # NIL /\ Bytes(entropy) >= limit)
          /\ \/ UNCHANGED <<prefsVars, samples, stopped>> /\ CollectEntropyEnds
             \/ /\ samples < MaxSamples
                /\ samples' = samples + 1
                /\ LET pen == Append(penEntropy, samples + 1)
                   IN  IF Len(pen) < Batch
                       THEN /\ penEntropy' = pen
                            /\ UNCHANGED <<entropy, nvSeed, soup, stopped>>
                            /\ CollectEntropyEnds
                       ELSE /\ SaveCollectedEntropy(pen)
                            /\ \/ /\ EntryChangeXmit /\ UNCHANGED stopped
                                  /\ CollectEntropyEnds
                               \/ /\ EntryChangeThrows /\ stopped' = TRUE
                                  /\ scheduled' = FALSE /\ timers' = timers - 1

PauseBackgroundCollection ==
    /\ paused' = TRUE
    /\ SaveCollectedEntropy(penEntropy)
    /\ EntryChangeXmit \/ EntryChangeThrows
    /\ UNCHANGED <<scheduled, limit, timers, samples, handed, stopped>>

\* Mutant: the delayed send is left to the tick that is gone.
ResumeBackgroundCollectionOnly ==
    /\ paused
    /\ paused' = FALSE
    /\ UNCHANGED <<prefsVars, scheduled, timers, limit, samples, handed, stopped>>

ResumeBackgroundCollection ==
    /\ paused
    /\ paused' = FALSE
    /\ IF scheduled THEN UNCHANGED <<scheduled, timers, stopped>>
       ELSE /\ timers < MaxTimers
            /\ scheduled' = TRUE /\ timers' = timers + 1 /\ stopped' = FALSE
    /\ UNCHANGED <<prefsVars, limit, samples, handed>>

SetBackgroundCollectionRate(lim) ==
    /\ limit # lim
    /\ limit' = lim
    /\ UNCHANGED <<prefsVars, scheduled, paused, timers, samples, handed, stopped>>

(***************************************************************************)
(* GetEntropyData(count): the bytes handed out leave prefs, and prefs is   *)
(* written before the caller gets them.  (The binary it returns may be     *)
(* longer than count; HardwarePoll copies count bytes of it.)  When        *)
(* EntryChangeXmit throws, at either write, nothing is handed out.         *)
(***************************************************************************)
Taken(ent, count) == IF Bytes(ent) <= count THEN ent ELSE SubSeq(ent, 1, 2 * count)
Left(ent, count) == IF Bytes(ent) <= count THEN NIL
                    ELSE SubSeq(ent, 2 * count + 1, Len(ent))

GetNothing == entropy = NIL /\ UNCHANGED <<prefsVars, handed>>

\* Mutant: the bytes are taken from prefs, which is not written.
GetBytesUnsaved(count) ==
    /\ entropy # NIL
    /\ LET saves == Bytes(entropy) <= count
           ent == IF saves THEN Munged(entropy, penEntropy) ELSE entropy
       IN  /\ penEntropy' = IF saves THEN Rest(penEntropy) ELSE penEntropy
           /\ entropy' = Left(ent, count)
           /\ handed' = handed \o Taken(ent, count)
    /\ UNCHANGED <<nvSeed, soup>>

GetBytes(count) ==
    /\ entropy # NIL
    /\ LET saves == Bytes(entropy) <= count
           ent == IF saves THEN Munged(entropy, penEntropy) ELSE entropy
       IN  /\ penEntropy' = IF saves THEN Rest(penEntropy) ELSE penEntropy
           /\ entropy' = Left(ent, count)
           /\ handed' = handed \o Taken(ent, count)
    /\ UNCHANGED nvSeed
    /\ EntryChangeXmit

\* The first write throws (only a short prefs.entropy is saved first), or
\* the last does: the entropy has left prefs and goes nowhere.
GetThrows(count) ==
    /\ entropy # NIL
    /\ LET saves == Bytes(entropy) <= count
           ent == IF saves THEN Munged(entropy, penEntropy) ELSE entropy
       IN  /\ penEntropy' = IF saves THEN Rest(penEntropy) ELSE penEntropy
           /\ \/ saves /\ entropy' = ent /\ EntryChangeThrows
              \/ /\ entropy' = Left(ent, count)
                 /\ StoreFaults
                 /\ soup' = IF saves THEN [entropy |-> ent, nvSeed |-> nvSeed] ELSE soup
    /\ UNCHANGED <<nvSeed, handed>>

NVSeedWrite(seed) ==
    /\ nvSeed' = seed
    /\ UNCHANGED <<penEntropy, entropy, handed>>

\* The Newton is reset: memory is lost, prefs is read from the soup again.
Reset == Started(soup) /\ UNCHANGED <<soup, samples, handed>>

Collector ==
    \/ CollectEntropy
    \/ PauseBackgroundCollection \/ ResumeBackgroundCollection
    \/ \E lim \in Limits : SetBackgroundCollectionRate(lim)

-----------------------------------------------------------------------------

Stored(ent) == IF ent = NIL THEN <<>> ELSE ent
Increasing(seq) == \A i, j \in 1 .. Len(seq) : i < j => seq[i] < seq[j]

\* No sample of the pen is ever given to mbedtls twice: what was handed out,
\* what prefs holds and what is not packed yet are in the order they were
\* taken, each once; and so they are after a reset, whenever it comes.
EntropyUsedOnce ==
    /\ Increasing(handed \o Stored(entropy) \o penEntropy)
    /\ Increasing(handed \o Stored(soup.entropy))

\* Pausing and resuming, in any order with the ticks, never loses the chain
\* of delayed sends; it ends at the limit, by an exception or by pausing.
CollectorAlive == ~paused /\ ~stopped => timers > 0
=============================================================================
