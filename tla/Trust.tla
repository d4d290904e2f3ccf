------------------------------- MODULE Trust -------------------------------
(***************************************************************************)
(* What a connection end trusts: the hostname, verify mode and certificate *)
(* authority options, and the root certificates that SSLConfigure loads.   *)
(*                                                                         *)
(* The roots are in two soups of the Newt task.  The package soup comes    *)
(* with the package and does not change.  The user edits the union soup: a *)
(* new tag adds a root, the tag of a built-in overrides it, and with trust *)
(* NIL disables it.  SSLConfigure runs in the tool task and reads the      *)
(* soups by RPC, one call for the size of the list of names, one for the   *)
(* list, and one or more for each certificate; NewtonScript runs between   *)
(* any two of them.                                                        *)
(***************************************************************************)
EXTENDS Naturals, Sequences, FiniteSets, SequencesExt

CONSTANTS
    NULL,
    BuiltIn,   \* tags of the package soup, in its order
    UserTags,  \* tags of the entries the user adds
    TagSize,   \* bytes of a tag in the list, its terminating 0 included
    CertSizes, \* sizes of the user's certificates; 0: neither pem nor der
    WrongSizes, \* data of an exception that is taken for the size of the list
    Hosts, Modes,
    Faults,    \* what may fail: "seed", "list", "store", "parse"
    MaxEdits,  \* bound: changes of the union soup
    MaxConnections  \* bound: connections of one instance

AllTags == ToSet(BuiltIn) \cup UserTags
Entries == [tag : UserTags, trust : BOOLEAN, len : CertSizes]

ASSUME TrustAssumption ==
    /\ NULL \notin AllTags \cup Hosts
    /\ BuiltIn # <<>> /\ BuiltIn \in Seq(AllTags)
    /\ TagSize \in [AllTags -> Nat \ {0}]
    /\ CertSizes \subseteq Nat /\ WrongSizes \subseteq Nat \ {0}
    /\ Modes \subseteq {"none", "optional", "required"}
    /\ Faults \subseteq {"seed", "list", "store", "parse"}

VARIABLES
    unionSoup,                 \* the user's entries, in the order of the soup
    mSSLHostname, mSSLAuthMode, mSSLLoadRootCertificates, mSSLConfigured,
    mSSLCAChain,               \* certificates parsed into the chain
    sslHostname,               \* the name the ssl context has
    heap, callerHeap,          \* the heap of the tool task, and the saved one
    pc,                        \* where SSLConfigure is
    listSize, names, torn,     \* the list of names; its last one is cut off
    certPtrSize,               \* size of the certificate buffer
    edits, connection,         \* bounded counters
    history                    \* what the properties remember

optionVars == <<mSSLHostname, mSSLAuthMode, mSSLLoadRootCertificates>>
chainVars == <<mSSLConfigured, mSSLCAChain, sslHostname>>
listVars == <<listSize, names, torn, certPtrSize>>
counters == <<edits, connection>>
trustVars == <<unionSoup, optionVars, chainVars, heap, callerHeap, pc,
               listVars, counters, history>>

\* What a new instance has behind it.
NewHistory ==
    [firstName |-> NULL,     \* first name given since it was last configured
     asked |-> NULL,         \* that name, the last time there was one
     nameLeft |-> "no",      \* a name of a connection that was never configured:
                             \* it "waits" for the next one, or was "used" by it
     caFirst |-> FALSE,      \* authorities given before any root was loaded
     listFailed |-> FALSE,   \* SSLConfigure returned from unwind_protect
     kept |-> {},            \* roots in the chain before the last SSLConfigure
     loaded |-> {},          \* what it added
     complete |-> FALSE,     \* it went through the list
     quiet |-> FALSE,        \* no edit and no failure since it started
     storeFailed |-> FALSE,  \* a store error was ignored since it started
     overridden |-> {}, disabled |-> {}] \* tags, all the time since it started

\* New, and the client opens the instance for its first connection.
TrustInit ==
    /\ unionSoup = <<>>
    /\ mSSLHostname = NULL
    /\ mSSLAuthMode = "required"
    /\ mSSLLoadRootCertificates = TRUE
    /\ mSSLConfigured = FALSE
    /\ mSSLCAChain = {}
    /\ sslHostname = NULL
    /\ heap = "caller" /\ callerHeap = "caller"
    /\ pc = "idle"
    /\ listSize = 0 /\ names = <<>> /\ torn = FALSE /\ certPtrSize = 0
    /\ edits = 0 /\ connection = 1
    /\ history = NewHistory

(***************************************************************************)
(* The soups.                                                              *)
(***************************************************************************)
TagsOf(soup) == {soup[i].tag : i \in 1 .. Len(soup)}

\* CursorEntry of a query for one tag: the first entry that has it, as a set
\* of at most one (nil: none).
EntryFor(soup, tag) ==
    {soup[i] : i \in {k \in 1 .. Len(soup) :
        soup[k].tag = tag /\ \A j \in 1 .. k - 1 : soup[j].tag # tag}}
Disabled(soup) == {t \in TagsOf(soup) : \A e \in EntryFor(soup, t) : ~e.trust}

Loading == pc \in {"size", "list", "names"}

Edit(soup) ==
    /\ edits < MaxEdits
    /\ edits' = edits + 1
    /\ unionSoup' = soup
    /\ history' = IF pc = "idle" THEN history
                  ELSE [history EXCEPT !.quiet = FALSE,
                                       !.overridden = @ \cap TagsOf(soup),
                                       !.disabled = @ \cap Disabled(soup)]
    /\ UNCHANGED <<optionVars, chainVars, heap, callerHeap, pc, listVars,
                   connection>>

AddEntry(e) == Edit(Append(unionSoup, e))
RemoveEntry(i) == Edit(RemoveAt(unionSoup, i))

\* The entries a cursor visits that is moved by step.
Visited(soup, step) ==
    [k \in 1 .. (Len(soup) + step - 1) \div step |-> soup[1 + (k - 1) * step]]

\* CursorMove(cursor, MAKEINT(1)): the integer 1 as a Ref is 4.
CursorStep == 4

\* The built-ins no entry overrides, in the order of the package soup: the
\* n-th is the one with n of them up to it.
NotOverridden(soup) ==
    LET kept == {k \in DOMAIN BuiltIn : BuiltIn[k] \notin TagsOf(soup)}
        upto(k) == {j \in kept : j <= k}
    IN  [n \in 1 .. Cardinality(kept) |->
            BuiltIn[CHOOSE k \in kept : Cardinality(upto(k)) = n]]

\* The names ListRootCertificates goes through.
RootNames(soup) ==
    LET visited == Visited(soup, CursorStep)
    IN  NotOverridden(soup) \o [k \in DOMAIN visited |-> visited[k].tag]

\* The size of a list: it has the bytes of its names.
Bytes(list) ==
    Cardinality(UNION {{k} \X (1 .. TagSize[list[k]]) : k \in 1 .. Len(list)})

\* Names that are written as a whole to a buffer of size bytes.
Fitting(list, size) ==
    CHOOSE k \in 0 .. Len(list) :
        /\ Bytes(SubSeq(list, 1, k)) <= size
        /\ \A more \in k + 1 .. Len(list) : Bytes(SubSeq(list, 1, more)) > size

(***************************************************************************)
(* The options of ProcessOptionStart.  The client passes them while it is  *)
(* connecting or connected; none is processed during SSLConfigure.         *)
(***************************************************************************)
Idle == pc = "idle"

HostnameOption(h) ==
    /\ Idle
    /\ mSSLHostname' = IF mSSLHostname = NULL THEN h ELSE mSSLHostname
    /\ history' = [history EXCEPT !.firstName = IF @ = NULL THEN h ELSE @]
    /\ UNCHANGED <<unionSoup, mSSLAuthMode, mSSLLoadRootCertificates, chainVars,
                   heap, callerHeap, pc, listVars, counters>>

VerifyModeOption(mode) ==
    /\ Idle
    /\ mSSLAuthMode' = mode
    /\ mSSLLoadRootCertificates' = (mSSLLoadRootCertificates /\ mode # "none")
    /\ UNCHANGED <<unionSoup, mSSLHostname, chainVars, heap, callerHeap, pc,
                   listVars, counters, history>>

Roots(chain) == {c \in chain : c.from # "client"}

\* Mutant: the roots are loaded all the same.
CertificateAuthorityOptionAdds ==
    /\ Idle
    /\ UNCHANGED mSSLLoadRootCertificates
    /\ mSSLCAChain' = mSSLCAChain \cup {[tag |-> NULL, from |-> "client"]}
    /\ history' = [history EXCEPT !.caFirst = @ \/ Roots(mSSLCAChain) = {}]
    /\ UNCHANGED <<unionSoup, mSSLHostname, mSSLAuthMode, mSSLConfigured,
                   sslHostname, heap, callerHeap, pc, listVars, counters>>

\* The authority is parsed into the chain, in the heap of the roots; when
\* that fails the roots are not loaded either.
CertificateAuthorityOption ==
    /\ Idle
    /\ mSSLLoadRootCertificates' = FALSE
    /\ \/ mSSLCAChain' = mSSLCAChain \cup {[tag |-> NULL, from |-> "client"]}
       \/ "parse" \in Faults /\ UNCHANGED mSSLCAChain
    /\ history' = [history EXCEPT !.caFirst = @ \/ Roots(mSSLCAChain) = {}]
    /\ UNCHANGED <<unionSoup, mSSLHostname, mSSLAuthMode, mSSLConfigured,
                   sslHostname, heap, callerHeap, pc, listVars, counters>>

(***************************************************************************)
(* SSLConfigure.  unwind_protect (external) runs its on_unwind part at the *)
(* end of its block and on an exception, not on a return.                  *)
(***************************************************************************)
ConfigureUnchanged == UNCHANGED <<unionSoup, optionVars, counters>>

\* Nothing is loaded yet: the chain has what it had.
NothingLoaded ==
    [history EXCEPT !.kept = Roots(mSSLCAChain), !.loaded = {}, !.complete = FALSE,
                    !.quiet = FALSE, !.storeFailed = FALSE,
                    !.overridden = {}, !.disabled = {}]

\* Called from ConnectStart and from the enable option, configured or not.
\* The random generator is seeded, then the roots heap becomes the task's.
\* An error of the seed is returned before anything has changed.
ConfigureStart ==
    /\ Idle
    /\ \/ /\ "seed" \in Faults
          /\ UNCHANGED <<pc, heap, callerHeap, history>>
       \/ /\ mSSLLoadRootCertificates
          /\ pc' = "size"
          /\ callerHeap' = heap
          /\ heap' = "roots"
          /\ history' = [NothingLoaded EXCEPT !.quiet = TRUE,
                !.overridden = TagsOf(unionSoup), !.disabled = Disabled(unionSoup)]
       \/ /\ ~mSSLLoadRootCertificates
          /\ pc' = "setup"
          /\ history' = NothingLoaded
          /\ UNCHANGED <<heap, callerHeap>>
    /\ UNCHANGED <<chainVars, listVars>>
    /\ ConfigureUnchanged

ListDisposed == listSize' = 0 /\ names' = <<>> /\ torn' = FALSE /\ certPtrSize' = 0

\* ListRootCertificates threw.  A negative result is returned from inside
\* unwind_protect: the heap is not set back.
ListFails ==
    /\ "list" \in Faults
    /\ pc' = "idle"
    /\ history' = [history EXCEPT !.listFailed = TRUE, !.quiet = FALSE]
    /\ ListDisposed

\* It threw, and what it returns (the data of an exFrames exception, an int or
\* a pointer) is positive: SSLConfigure goes on with it.
ListMistaken ==
    /\ "list" \in Faults
    /\ history' = [history EXCEPT !.quiet = FALSE]

\* ListRootCertificates(NULL, NULL): the size of the list, or an exception's
\* data taken for it.
ListSizeRPC ==
    /\ pc = "size"
    /\ \/ ListFails
       \/ /\ ListMistaken
          /\ pc' = "list"
          /\ listSize' \in WrongSizes
          /\ UNCHANGED <<names, torn, certPtrSize>>
       \/ /\ pc' = "list"
          /\ listSize' = Bytes(RootNames(unionSoup))
          /\ UNCHANGED <<names, torn, certPtrSize, history>>
    /\ UNCHANGED <<chainVars, heap, callerHeap>>
    /\ ConfigureUnchanged

\* ListRootCertificates(list, &listSize): writing stops at the end of the
\* buffer, perhaps inside a name, which then has no terminating 0.  After an
\* exception the whole buffer is read, what was written and what was not.
ListRPC ==
    /\ pc = "list"
    /\ \/ ListFails
       \/ /\ ListMistaken
          /\ pc' = "names"
          /\ \E k \in 0 .. Fitting(RootNames(unionSoup), listSize) :
                names' = SubSeq(RootNames(unionSoup), 1, k)
          /\ torn' = TRUE
          /\ certPtrSize' = 0
          /\ UNCHANGED listSize
       \/ LET all == RootNames(unionSoup)
              k == Fitting(all, listSize)
          IN  /\ pc' = "names"
              /\ names' = SubSeq(all, 1, k)
              /\ torn' = (k < Len(all) /\ Bytes(SubSeq(all, 1, k)) < listSize)
              /\ certPtrSize' = 0
              /\ UNCHANGED <<listSize, history>>
    /\ UNCHANGED <<chainVars, heap, callerHeap>>
    /\ ConfigureUnchanged

\* The entry GetRootCertificate finds, as a set of at most one: the user's, or
\* else the built-in.  A store error in the union soup is ignored.
FoundEntry(tag, storeError) ==
    LET users == IF storeError THEN {} ELSE EntryFor(unionSoup, tag)
    IN  IF users # {}
        THEN {[cert |-> [tag |-> tag, from |-> "user"], trust |-> e.trust, len |-> e.len] :
                 e \in users}
        ELSE {[cert |-> [tag |-> t, from |-> "builtin"], trust |-> TRUE, len |-> 1] :
                 t \in {tag} \cap ToSet(BuiltIn)}

\* Mutant: an entry counts whatever its trust slot says.
GetRootCertificateAny(tag, storeError) ==
    {e \in FoundEntry(tag, storeError) : e.len > 0}

\* What GetRootCertificate returns: the certificate, or nothing (-1).
GetRootCertificate(tag, storeError) ==
    {e \in FoundEntry(tag, storeError) : e.trust /\ e.len > 0}

\* Mutant: the call is made again with the same buffer.
TooLargeSameBuffer(found) ==
    /\ \E e \in found : e.len > certPtrSize
    /\ UNCHANGED <<certPtrSize, mSSLCAChain, names, torn>>

\* The buffer is made as large as the certificate and the call made again.
TooLarge(found) ==
    /\ \E e \in found : e.len > certPtrSize /\ certPtrSize' = e.len
    /\ UNCHANGED <<mSSLCAChain, names, torn>>

\* The certificates among parsed are added to the chain, and the next name is
\* due.  None when nothing was found; the result of parsing is ignored.
Parsed(found, parsed, rest) ==
    /\ \A e \in found : e.len <= certPtrSize
    /\ mSSLCAChain' = mSSLCAChain \cup parsed
    /\ names' = rest
    /\ torn' = (torn /\ names # <<>>)
    /\ UNCHANGED certPtrSize

\* One turn of the loop over the names.
GetOne(tag, rest, storeError) ==
    LET found == GetRootCertificate(tag, storeError)
        certs == {e.cert : e \in found}
        remember(parsed, quiet) ==
            history' = [history EXCEPT !.loaded = @ \cup parsed, !.quiet = @ /\ quiet,
                                       !.storeFailed = @ \/ storeError]
    IN  \/ TooLarge(found) /\ remember({}, ~storeError)
        \/ Parsed(found, certs, rest) /\ remember(certs, ~storeError)
        \/ /\ "parse" \in Faults /\ found # {}
           /\ Parsed(found, {}, rest) /\ remember({}, FALSE)

NextName ==
    /\ pc = "names"
    /\ names # <<>>
    /\ \E storeError \in BOOLEAN :
          /\ storeError => "store" \in Faults
          /\ GetOne(Head(names), Tail(names), storeError)
    /\ UNCHANGED <<mSSLConfigured, sslHostname, heap, callerHeap, pc, listSize>>
    /\ ConfigureUnchanged

\* The name that was cut off goes on in the memory behind the buffer, or was
\* never written: it may turn out to be any name, or none.
TornName ==
    /\ pc = "names"
    /\ names = <<>> /\ torn
    /\ \E tag \in AllTags \cup {NULL} : GetOne(tag, <<>>, FALSE)
    /\ UNCHANGED <<mSSLConfigured, sslHostname, heap, callerHeap, pc, listSize>>
    /\ ConfigureUnchanged

\* Mutant: the heap is not set back after the loop.
EndOfNamesInRootsHeap ==
    /\ pc = "names"
    /\ names = <<>> /\ ~torn
    /\ pc' = "setup"
    /\ ListDisposed
    /\ history' = [history EXCEPT !.complete = TRUE]
    /\ UNCHANGED <<chainVars, heap, callerHeap>>
    /\ ConfigureUnchanged

EndOfNames ==
    /\ pc = "names"
    /\ names = <<>> /\ ~torn
    /\ pc' = "setup"
    /\ heap' = callerHeap
    /\ ListDisposed
    /\ history' = [history EXCEPT !.complete = TRUE]
    /\ UNCHANGED <<chainVars, callerHeap>>
    /\ ConfigureUnchanged

\* The rest of SSLConfigure, which uses up the hostname.  Without one the ssl
\* context keeps the name it has.
ConfigureEnds ==
    /\ pc = "setup"
    /\ pc' = "idle"
    /\ mSSLConfigured' = TRUE
    /\ sslHostname' = IF mSSLHostname = NULL THEN sslHostname ELSE mSSLHostname
    /\ mSSLHostname' = NULL
    /\ LET given == history.firstName
       IN  history' = [history EXCEPT
              !.firstName = NULL,
              !.asked = IF given = NULL THEN @ ELSE given,
              !.nameLeft = IF @ = "waits" THEN "used" ELSE IF given = NULL THEN @ ELSE "no"]
    /\ UNCHANGED <<unionSoup, mSSLAuthMode, mSSLLoadRootCertificates,
                   mSSLCAChain, heap, callerHeap, listVars, counters>>

(***************************************************************************)
(* The end of a connection, followed by the next one.                      *)
(***************************************************************************)
NextConnection ==
    /\ Idle
    /\ connection < MaxConnections
    /\ connection' = connection + 1
    /\ mSSLConfigured' = FALSE
    /\ UNCHANGED <<unionSoup, heap, callerHeap, pc, listVars, edits>>

\* A connection that was never configured leaves the name it was given.
ConnectionClosed ==
    [NothingLoaded EXCEPT !.firstName = NULL,
        !.nameLeft = IF ~mSSLConfigured /\ mSSLHostname # NULL THEN "waits" ELSE @]

\* Mutant: SSLUnconfigure leaves the hostname for the next connection.
CloseStartKeepsName ==
    /\ NextConnection
    /\ history' = ConnectionClosed
    /\ UNCHANGED <<optionVars, mSSLCAChain, sslHostname>>

\* Only a configured connection runs SSLUnconfigure; the ssl context with its
\* name and the chain stay.
CloseStart ==
    /\ NextConnection
    /\ mSSLHostname' = IF mSSLConfigured THEN NULL ELSE mSSLHostname
    /\ history' = ConnectionClosed
    /\ UNCHANGED <<mSSLAuthMode, mSSLLoadRootCertificates, mSSLCAChain, sslHostname>>

\* The instance is deleted with its ssl context and its chain, and a new one
\* takes its place.
Delete ==
    /\ NextConnection
    /\ mSSLHostname' = NULL
    /\ mSSLAuthMode' = "required"
    /\ mSSLLoadRootCertificates' = TRUE
    /\ mSSLCAChain' = {}
    /\ sslHostname' = NULL
    /\ history' = [NewHistory EXCEPT !.listFailed = history.listFailed]

Load == ListSizeRPC \/ ListRPC \/ NextName \/ TornName \/ EndOfNames \/ ConfigureEnds

TrustNext ==
    \/ \E e \in Entries : AddEntry(e)
    \/ \E i \in 1 .. Len(unionSoup) : RemoveEntry(i)
    \/ \E h \in Hosts : HostnameOption(h)
    \/ \E mode \in Modes : VerifyModeOption(mode)
    \/ CertificateAuthorityOption
    \/ ConfigureStart
    \/ Load
    \/ CloseStart
    \/ Delete

TrustSpec == TrustInit /\ [][TrustNext]_trustVars

\* The tool task runs, and the Newt task answers its calls.
TrustFairSpec == TrustSpec /\ WF_trustVars(Load)

-----------------------------------------------------------------------------
\* README: "you can **disable** a built-in certificate by adding an entry to
\* the union soup".  However the user edits the soup between the calls of
\* SSLConfigure, and unless the store failed, the chain has no root but those
\* it had before and those loaded now, and of these none with a tag that was
\* disabled all the time, and none that is built in with a tag that was
\* overridden all the time.  When nothing interferes every other built-in is
\* in the chain.
RootsAsDocumented ==
    /\ ~history.storeFailed =>
          /\ Roots(mSSLCAChain) \subseteq history.kept \cup history.loaded
          /\ \A c \in history.loaded :
                /\ c.tag \notin history.disabled
                /\ c.from = "builtin" => c.tag \notin history.overridden
    /\ history.complete /\ history.quiet =>
          \A t \in ToSet(BuiltIn) \ history.overridden :
              [tag |-> t, from |-> "builtin"] \in mSSLCAChain

\* README: "you can **disable** a built-in certificate by adding an entry to
\* the union soup with the tag of the certificate you want to disable and set
\* trust to NIL."  After a load that nothing disturbed, no root of the chain
\* has a disabled tag.
DisabledNotTrusted ==
    pc = "setup" /\ history.complete /\ history.quiet =>
        \A c \in Roots(mSSLCAChain) : c.tag \notin Disabled(unionSoup)

\* README: "You can add additionally certificates by adding entries to the
\* union soup."  A load that nothing disturbed has every trusted certificate
\* of the user.
UserRootsLoaded ==
    pc = "setup" /\ history.complete /\ history.quiet =>
        \A t \in TagsOf(unionSoup) :
            GetRootCertificate(t, FALSE) # {} =>
                [tag |-> t, from |-> "user"] \in mSSLCAChain

\* README: the client's authorities "will replace the default CA roots".
\* Once they were given to an instance that had loaded no root, none is ever
\* loaded, on this or a later connection, whatever other options follow.
CAReplacesRoots == history.caFirst => Roots(mSSLCAChain) = {}

\* The name mbedtls checks is the first one given since the configuration
\* before; where none was given it stays the one of the last configuration
\* that had one, on this or an earlier connection of the instance, never one
\* a client gave and a closed session dropped.  The exception is a name left
\* by a connection that was never configured.
NameAsGiven == history.nameLeft = "no" => sslHostname = history.asked

\* SSLConfigure gives the task its heap back on every path but the return
\* after a failed list (which leaves the roots heap in place for good).
HeapRestored == ~Loading /\ ~history.listFailed => heap = "caller"

\* SSLConfigure ends: the loop that makes the buffer larger and asks again
\* does not go on for ever, though certificates change between two calls.
LoadEnds == Loading ~> ~Loading
=============================================================================
