---------------------------- MODULE NativeCalls ----------------------------
(***************************************************************************)
(* The bindings as native calls.  A binding takes binaries of the          *)
(* NewtonScript heap as arguments and hands their bytes to mbedtls as raw  *)
(* pointers, so it locks them for the time of the call: the garbage        *)
(* collector (external) moves what is not locked.  mbedtls calls back into *)
(* NewtonScript, which allocates, calls other bindings and throws; an      *)
(* exception leaves the C frames without returning through them.           *)
(*                                                                         *)
(* A binding is a row of a table: what it checks before it locks, what it  *)
(* locks in which order, what happens under the locks and how the result   *)
(* of mbedtls becomes a value or an exception.  CObjects is about the      *)
(* structures behind the binaries; here only the locks and results count.  *)
(***************************************************************************)
EXTENDS Naturals, Sequences, FiniteSets

CONSTANTS
    Objs,       \* C object binaries
    Data,       \* plain binaries and strings
    NOTBINARY,  \* any other argument
    MaxCalls    \* bound: native calls inside each other

ASSUME CallsAssumption == NOTBINARY \notin Objs \cup Data /\ MaxCalls \in Nat

Refs == Objs \cup Data

VARIABLES
    mode,     \* "script", "native", or an exception under way in either
    frames,   \* the native calls in progress, innermost last
    locks,    \* lock count of each binary
    addr      \* where each binary is

callVars == <<mode, frames, locks, addr>>

CallsInit ==
    /\ mode = "script"
    /\ frames = <<>>
    /\ locks = [r \in Refs |-> 0]
    /\ addr = [r \in Refs |-> 0]

(***************************************************************************)
(* The rows.  check: an argument is converted or tested before anything is *)
(* locked.  under: what happens under the locks, "plain", "converts" (may  *)
(* throw), "runs" (may call back) or "throws" (ThrowMsg("Unimplemented")). *)
(* result: how it is converted.                                            *)
(***************************************************************************)
Row(check, lockSeq, under, result) ==
    [check |-> check, locks |-> lockSeq, under |-> under, result |-> result]

Query(result) == Row(FALSE, <<"obj">>, "plain", result)
Run == Row(FALSE, <<"obj">>, "runs", "cast")
Setting == Row(TRUE, <<"obj">>, "plain", "value")
Stored == Row(FALSE, <<"obj">>, "plain", "value")
Late == Row(FALSE, <<"obj">>, "converts", "value")
Unimplemented == Row(FALSE, <<"obj">>, "throws", "value")
Accessor == Row(TRUE, <<"obj">>, "converts", "value")

ContextQueries ==
    [SSLCheckPending |-> Query("value"), SSLCloseNotify |-> Run,
     SSLGetALPNProtocol |-> Query("value"), SSLGetBytesAvail |-> Query("value"),
     SSLGetCiphersuite |-> Query("value"), SSLGetMaxFragLen |-> Query("value"),
     SSLGetMaxOutRecordPayload |-> Query("cast"), SSLGetPeerCert |-> Query("value")]

SessionQueries ==
    [SSLGetRecordExpansion |-> Query("cast"), SSLGetSession |-> Query("cast"),
     SSLGetVerifyResult |-> Query("value"), SSLGetVersion |-> Query("value")]

\* SSLRead allocates the binary it locks and returns.
ContextRuns ==
    [SSLHandshake |-> Run, SSLHandshakeStep |-> Run, SSLRenegotiate |-> Run,
     SSLRead |-> Row(TRUE, <<"obj", "data">>, "runs", "cast"),
     SSLSendAlertMessage |-> Row(TRUE, <<"obj">>, "runs", "cast"),
     SSLSessionReset |-> Run]

\* SSLSetHostname copies the name before it locks the context.
ContextSettings ==
    [SSLSetBIO |-> Stored,
     SSLSetClientTransportID |-> Row(TRUE, <<"obj", "bin">>, "plain", "cast"),
     SSLSetDatagramPacking |-> Stored,
     SSLSetHostname |-> Row(TRUE, <<"obj">>, "plain", "cast"),
     SSLSetHsAuthMode |-> Setting,
     SSLSetHsCAChain |-> Row(FALSE, <<"obj", "opt", "opt">>, "plain", "value"),
     SSLSetHsOwnCert |-> Row(FALSE, <<"obj", "obj", "obj">>, "plain", "cast"),
     SSLSetHsPSK |-> Row(TRUE, <<"obj", "data">>, "plain", "cast"),
     SSLSetMTU |-> Setting]

\* SSLSetSession locks its context twice and never its session.
\* SSLSetTimerCb has mbedtls call the set timer function.
ContextSetup ==
    [SSLSetSession |-> Row(FALSE, <<"obj", "same">>, "plain", "cast"),
     SSLSetTimerCb |-> Row(FALSE, <<"obj">>, "runs", "value"),
     SSLSetup |-> Row(FALSE, <<"obj", "obj">>, "plain", "cast"),
     SSLWrite |-> Row(TRUE, <<"obj", "data">>, "runs", "cast"),
     SSLCacheSetMaxEntries |-> Setting, SSLCacheSetTimeout |-> Setting]

ConfigFirst ==
    [SSLConfALPNProtocol |-> Unimplemented, SSLConfARC4Support |-> Unimplemented,
     SSLConfAuthMode |-> Setting,
     SSLConfCAChain |-> Row(FALSE, <<"obj", "opt", "opt">>, "plain", "value"),
     SSLConfCbcRecordSplitting |-> Unimplemented, SSLConfCertProfile |-> Unimplemented,
     SSLConfCertReqCAList |-> Unimplemented, SSLConfCiphersuites |-> Unimplemented,
     SSLConfCiphersuitesForVersion |-> Unimplemented, SSLConfCurves |-> Unimplemented]

ConfigSecond ==
    [SSLConfDbg |-> Unimplemented, SSLConfDHParamBin |-> Unimplemented,
     SSLConfDHParamCtx |-> Unimplemented, SSLConfDHMMinBitlen |-> Unimplemented,
     SSLConfDTLSAntiReplay |-> Unimplemented, SSLConfDTLSBadMACLimit |-> Unimplemented,
     SSLConfDTLSCookies |-> Unimplemented, SSLConfEncryptThenMac |-> Unimplemented,
     SSLConfEndpoint |-> Setting, SSLConfExportKeysCb |-> Unimplemented]

ConfigThird ==
    [SSLConfExtendedMasterSecret |-> Unimplemented, SSLConfFallback |-> Unimplemented,
     SSLConfHandshakeTimeout |-> Late, SSLConfLegacyRenegotiation |-> Setting,
     SSLConfMaxFragLen |-> Row(TRUE, <<"obj">>, "plain", "cast"),
     SSLConfMaxVersion |-> Late, SSLConfMinVersion |-> Late,
     SSLConfOwnCert |-> Row(FALSE, <<"obj", "obj", "obj">>, "plain", "cast")]

\* SSLConfRng locks a new RefVar, which is nil, and not its second argument.
ConfigFourth ==
    [SSLConfPSK |-> Row(TRUE, <<"obj", "bin", "bin">>, "plain", "cast"),
     SSLConfPSKCb |-> Unimplemented, SSLConfRenegotiation |-> Setting,
     SSLConfRenegotiationEnforced |-> Late, SSLConfRenegotiationPeriod |-> Unimplemented,
     SSLConfRng |-> Row(FALSE, <<"obj", "nil">>, "plain", "value"),
     SSLConfSessionCache |-> Unimplemented, SSLConfSessionTickets |-> Setting,
     SSLConfSessionTicketsCb |-> Unimplemented]

ConfigLast ==
    [SSLConfSigHashes |-> Unimplemented, SSLConfSNI |-> Stored,
     SSLConfTransport |-> Setting, SSLConfTruncatedHMAC |-> Setting,
     SSLConfVerify |-> Stored,
     SSLConfigDefaults |-> Row(TRUE, <<"obj">>, "plain", "cast")]

\* X509CrtParse takes an array too, which it copies instead of locking it.
\* X509CrtGetDER locks the binary it allocates, if the chain is not empty.
CertificateCalls ==
    [X509CrtParse |-> Row(FALSE, <<"obj", "optBin">>, "converts", "cast"),
     X509CrtCount |-> Query("value"),
     X509CrtGetDER |-> Row(FALSE, <<"obj", "optData">>, "plain", "value"),
     X509CrtGetVersion |-> Accessor, X509CrtGetSerialNumber |-> Accessor,
     X509CrtGetIssuerName |-> Accessor]

\* X509CrlParse locks its data before the structure.
CertificateCallsLast ==
    [X509CrtGetSubjectName |-> Accessor, X509CrtGetIssueDate |-> Accessor,
     X509CrtGetExpirationDate |-> Accessor, X509CrtGetSignatureAlgorithm |-> Accessor,
     X509CrlParse |-> Row(FALSE, <<"bin", "obj">>, "plain", "cast")]

\* The seed is drawn from entropy collected in NewtonScript.
SeedCalls ==
    [CtrDrbgSeed |-> Row(FALSE, <<"obj", "obj", "bin">>, "runs", "value")]

(***************************************************************************)
(* A call.                                                                 *)
(***************************************************************************)
NoLock == "none"

\* What an argument may turn out to be; nil where that is allowed.
Candidates(lock) ==
    CASE lock = "obj" -> Objs \cup {NOTBINARY}
      [] lock = "same" -> Objs
      [] lock = "nil" -> {NOTBINARY}
      [] lock = "data" -> Data
      [] lock = "bin" -> Data \cup {NOTBINARY}
      [] lock = "opt" -> Objs \cup {NOTBINARY, NoLock}
      [] lock = "optBin" -> Data \cup {NOTBINARY, NoLock}
      [] lock = "optData" -> Data \cup {NoLock}

Arguments(row) ==
    {args \in [DOMAIN row.locks -> Refs \cup {NOTBINARY, NoLock}] :
        \A i \in DOMAIN row.locks :
            /\ args[i] \in Candidates(row.locks[i])
            /\ row.locks[i] = "same" => args[i] = args[i - 1]}

\* The positions of the arguments locked: those before the first argument
\* that cannot be.
LockedPrefix(args) ==
    {i \in DOMAIN args : args[i] # NoLock /\ \A j \in 1 .. i : args[j] # NOTBINARY}

Held(ptrs, r) == Cardinality({i \in DOMAIN ptrs : ptrs[i].ref = r})

\* Every unwind_protect of the call has run its on_unwind part.  That of an
\* argument that is not a binary unlocks nothing (UnlockRefArg, external).
Unlocked(frame) == [r \in Refs |-> locks[r] - Held(frame.ptrs, r)]

Top == frames[Len(frames)]
Popped == SubSeq(frames, 1, Len(frames) - 1)

\* The binding is entered and locks its arguments from the outside in.
Enter(row, args) ==
    LET ptrs == [i \in LockedPrefix(args) |-> [ref |-> args[i], at |-> addr[args[i]]]]
    IN  /\ frames' = Append(frames, [ptrs |-> ptrs, under |-> row.under,
                                     result |-> row.result])
        /\ locks' = [r \in Refs |-> locks[r] + Held(ptrs, r)]
        /\ mode' = IF \E i \in DOMAIN args : args[i] = NOTBINARY
                   THEN "nativeThrows" ELSE "native"
        /\ UNCHANGED addr

\* A trampoline of the native module: the method of the interface is called.
CallOne(row) ==
    /\ mode = "script"
    /\ Len(frames) < MaxCalls
    /\ \/ /\ row.check
          /\ mode' = "scriptThrows"
          /\ UNCHANGED <<frames, locks, addr>>
       \/ \E args \in Arguments(row) : Enter(row, args)

\* Bindings with the same row behave the same.
Rows(table) == {table[fn] : fn \in DOMAIN table}

CallContext ==
    \E row \in Rows(ContextQueries) \cup Rows(SessionQueries) : CallOne(row)
CallRunning == \E row \in Rows(ContextRuns) \cup Rows(SeedCalls) : CallOne(row)
CallSetting == \E row \in Rows(ContextSettings) \cup Rows(ContextSetup) : CallOne(row)
CallConfigFirst == \E row \in Rows(ConfigFirst) : CallOne(row)
CallConfigSecond == \E row \in Rows(ConfigSecond) : CallOne(row)
CallConfigThird == \E row \in Rows(ConfigThird) : CallOne(row)
CallConfigLast == \E row \in Rows(ConfigFourth) \cup Rows(ConfigLast) : CallOne(row)
CallCertificate ==
    \E row \in Rows(CertificateCalls) \cup Rows(CertificateCallsLast) : CallOne(row)

\* mbedtls calls a NewtonScript function: bio, timer, SNI or verify.
CallBack ==
    /\ mode = "native"
    /\ Top.under = "runs"
    /\ mode' = "script"
    /\ UNCHANGED <<frames, locks, addr>>

\* The function returns, or its result is of a wrong type.
CallBackReturns ==
    /\ mode = "script"
    /\ frames # <<>>
    /\ mode' \in {"native", "nativeThrows"}
    /\ UNCHANGED <<frames, locks, addr>>

\* An exception from under the locks.
BodyThrows ==
    /\ mode = "native"
    /\ Top.under \in {"throws", "converts"}
    /\ mode' = "nativeThrows"
    /\ UNCHANGED <<frames, locks, addr>>

\* The call returns.  CastOrThrowError throws when mbedtls has failed, after
\* the locks are released.
Return ==
    /\ mode = "native"
    /\ Top.under # "throws"
    /\ frames' = Popped
    /\ locks' = Unlocked(Top)
    /\ \/ mode' = "script"
       \/ Top.result = "cast" /\ mode' = "scriptThrows"
    /\ UNCHANGED addr

\* Mutant: the locks are released at the end of the block only.
UnwindKeepsLocks ==
    /\ mode = "nativeThrows"
    /\ frames' = Popped
    /\ mode' = "scriptThrows"
    /\ UNCHANGED <<locks, addr>>

\* The exception passes the frame of a binding.
Unwind ==
    /\ mode = "nativeThrows"
    /\ frames' = Popped
    /\ locks' = Unlocked(Top)
    /\ mode' = "scriptThrows"
    /\ UNCHANGED addr

\* NewtonScript throws, catches, or lets an exception pass to what called it:
\* mbedtls, or the event loop.
ScriptThrows ==
    /\ mode = "script"
    /\ mode' = "scriptThrows"
    /\ UNCHANGED <<frames, locks, addr>>

ScriptCatches ==
    /\ mode = "scriptThrows"
    /\ mode' \in {"script"} \cup (IF frames = <<>> THEN {} ELSE {"nativeThrows"})
    /\ UNCHANGED <<frames, locks, addr>>

\* NewtonScript allocates, and the garbage collector moves some binaries.
Collect ==
    /\ mode = "script"
    /\ \E moved \in SUBSET {r \in Refs : locks[r] = 0} :
          addr' = [r \in Refs |-> IF r \in moved THEN 1 - addr[r] ELSE addr[r]]
    /\ UNCHANGED <<mode, frames, locks>>

CallsNext ==
    \/ CallContext \/ CallRunning \/ CallSetting
    \/ CallConfigFirst \/ CallConfigSecond \/ CallConfigThird \/ CallConfigLast
    \/ CallCertificate
    \/ CallBack \/ CallBackReturns \/ BodyThrows \/ Return \/ Unwind
    \/ ScriptThrows \/ ScriptCatches \/ Collect

CallsSpec == CallsInit /\ [][CallsNext]_callVars

-----------------------------------------------------------------------------
\* Every raw pointer that a call in progress has given to mbedtls is where
\* the binary is, whatever the callbacks do, and a binary is locked exactly
\* as often as calls in progress hold it: no exception, from a callback, an
\* argument that is not a binary or an unimplemented binding, leaves a lock
\* behind, and no inner call unlocks what an outer call still uses.
PointersPinned ==
    /\ \A k \in DOMAIN frames : \A i \in DOMAIN frames[k].ptrs :
          frames[k].ptrs[i].at = addr[frames[k].ptrs[i].ref]
    /\ LET HoldsAt(k, i, r) ==
               i \in DOMAIN frames[k].ptrs /\ frames[k].ptrs[i].ref = r
       IN  \A r \in Refs :
              locks[r] = Cardinality({at \in (DOMAIN frames) \X (1 .. 3) :
                                         HoldsAt(at[1], at[2], r)})
=============================================================================
