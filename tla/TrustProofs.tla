---------------------------- MODULE TrustProofs ----------------------------
(***************************************************************************)
(* Proofs about what a connection end trusts, for any soups, tags, sizes,  *)
(* options and number of edits and connections: the heap of the tool task  *)
(* is given back, the client's authorities replace the roots, the name     *)
(* checked is the name given, disabled, overridden and other built-in      *)
(* roots are what the documentation says, and every step of SSLConfigure   *)
(* brings it nearer to its end.                                            *)
(***************************************************************************)
EXTENDS Trust, SequenceTheorems, FiniteSetTheorems, WellFoundedInduction, TLAPS

(***************************************************************************)
(* The history is a record with these fields, whatever a step does to it.  *)
(***************************************************************************)
Fields == {"firstName", "asked", "nameLeft", "caFirst", "listFailed", "kept",
           "loaded", "complete", "quiet", "storeFailed", "overridden", "disabled"}
HistoryShape == history = [f \in Fields |-> history[f]]

LEMMA ShapeInit ==
    ASSUME TrustInit
    PROVE  /\ HistoryShape
           /\ history.caFirst = FALSE /\ history.listFailed = FALSE
           /\ history.nameLeft = "no" /\ history.firstName = NULL /\ history.asked = NULL
           /\ history.complete = FALSE /\ history.loaded = {} /\ history.kept = {}
<1>1. history = NewHistory
  BY DEF TrustInit
<1> QED
  BY <1>1 DEF HistoryShape, NewHistory, Fields

\* The history when nothing is loaded yet.
LEMMA NothingLoadedShape ==
    ASSUME HistoryShape
    PROVE  /\ NothingLoaded = [f \in Fields |-> NothingLoaded[f]]
           /\ NothingLoaded.kept = Roots(mSSLCAChain) /\ NothingLoaded.loaded = {}
           /\ NothingLoaded.complete = FALSE
           /\ NothingLoaded.firstName = history.firstName /\ NothingLoaded.asked = history.asked
           /\ NothingLoaded.nameLeft = history.nameLeft
           /\ NothingLoaded.caFirst = history.caFirst
           /\ NothingLoaded.listFailed = history.listFailed
  BY DEF NothingLoaded, HistoryShape, Fields

\* And when a connection was closed.
LEMMA ConnectionClosedShape ==
    ASSUME HistoryShape
    PROVE  /\ ConnectionClosed = [f \in Fields |-> ConnectionClosed[f]]
           /\ ConnectionClosed.kept = Roots(mSSLCAChain) /\ ConnectionClosed.loaded = {}
           /\ ConnectionClosed.complete = FALSE
           /\ ConnectionClosed.firstName = NULL /\ ConnectionClosed.asked = history.asked
           /\ ConnectionClosed.nameLeft = IF ~mSSLConfigured /\ mSSLHostname # NULL
                                          THEN "waits" ELSE history.nameLeft
           /\ ConnectionClosed.caFirst = history.caFirst
           /\ ConnectionClosed.listFailed = history.listFailed
  BY DEF ConnectionClosed, NothingLoaded, HistoryShape, Fields

\* What SSLConfigure does to the history when it starts.
LEMMA StartShape ==
    ASSUME HistoryShape, ConfigureStart
    PROVE  /\ HistoryShape'
           /\ history'.firstName = history.firstName /\ history'.asked = history.asked
           /\ history'.nameLeft = history.nameLeft /\ history'.caFirst = history.caFirst
           /\ history'.listFailed = history.listFailed
<1>1. CASE history' = history
  BY <1>1 DEF HistoryShape
<1>2. CASE history' = NothingLoaded
  BY <1>2, NothingLoadedShape DEF HistoryShape
<1>3. CASE history' = [NothingLoaded EXCEPT !.quiet = TRUE,
                !.overridden = TagsOf(unionSoup), !.disabled = Disabled(unionSoup)]
  <2> DEFINE n == NothingLoaded
  <2>1. /\ n = [f \in Fields |-> n[f]]
        /\ n.firstName = history.firstName /\ n.asked = history.asked
        /\ n.nameLeft = history.nameLeft /\ n.caFirst = history.caFirst
        /\ n.listFailed = history.listFailed
    BY NothingLoadedShape
  <2>2. history' = [n EXCEPT !.quiet = TRUE,
                !.overridden = TagsOf(unionSoup), !.disabled = Disabled(unionSoup)]
    BY <1>3
  <2> HIDE DEF n
  <2> QED
    BY <2>1, <2>2 DEF HistoryShape, Fields
<1> QED
  BY <1>1, <1>2, <1>3 DEF ConfigureStart

LEMMA ShapeStep == HistoryShape /\ [TrustNext]_trustVars => HistoryShape'
<1> SUFFICES ASSUME HistoryShape, [TrustNext]_trustVars PROVE HistoryShape'
  OBVIOUS
<1>1. CASE history' = history
  BY <1>1 DEF HistoryShape
<1>2. ASSUME NEW soup, Edit(soup) PROVE HistoryShape'
  BY <1>2 DEF Edit, HistoryShape, Fields
<1>3. ASSUME NEW h \in Hosts, HostnameOption(h) PROVE HistoryShape'
  BY <1>3 DEF HostnameOption, HistoryShape, Fields
<1>4. CASE CertificateAuthorityOption
  BY <1>4 DEF CertificateAuthorityOption, HistoryShape, Fields
<1>5. CASE ConfigureStart
  BY <1>5, StartShape
<1>6. CASE ListSizeRPC \/ ListRPC
  BY <1>6 DEF ListSizeRPC, ListRPC, ListFails, ListMistaken, HistoryShape, Fields
<1>7. ASSUME NEW tag, NEW rest, NEW storeError, GetOne(tag, rest, storeError) PROVE HistoryShape'
  BY <1>7 DEF GetOne, HistoryShape, Fields
<1>8. CASE NextName \/ TornName
  BY <1>7, <1>8 DEF NextName, TornName
<1>9. CASE EndOfNames
  BY <1>9 DEF EndOfNames, HistoryShape, Fields
<1>10. CASE CloseStart
  BY <1>10, ConnectionClosedShape DEF CloseStart, HistoryShape
<1>11. CASE Delete
  BY <1>11 DEF Delete, NewHistory, HistoryShape, Fields
<1>12. CASE ConfigureEnds
  BY <1>12 DEF ConfigureEnds, HistoryShape, Fields
<1> QED
  BY <1>1, <1>2, <1>3, <1>4, <1>5, <1>6, <1>8, <1>9, <1>10, <1>11, <1>12
     DEF TrustNext, Load, AddEntry, RemoveEntry, VerifyModeOption, trustVars

(***************************************************************************)
(* The heap of the tool task.                                              *)
(***************************************************************************)
\* Until a list failed: the roots heap while the roots are loaded, with the
\* caller's saved, and the caller's at any other time.
HeapInv ==
    /\ HistoryShape
    /\ ~history.listFailed =>
          IF Loading THEN heap = "roots" /\ callerHeap = "caller" ELSE heap = "caller"

\* SSLConfigure gives the task its heap back on every path, through loops,
\* edits of the soup and connections, but the return after a failed list.
THEOREM HeapAlwaysRestored == TrustSpec => []HeapRestored
<1>1. TrustInit => HeapInv
  BY ShapeInit DEF TrustInit, HeapInv, Loading
<1>2. HeapInv /\ [TrustNext]_trustVars => HeapInv'
  <2> SUFFICES ASSUME HeapInv, [TrustNext]_trustVars PROVE HeapInv'
    OBVIOUS
  <2>0. HistoryShape /\ HistoryShape'
    BY ShapeStep DEF HeapInv
  <2>1. CASE UNCHANGED <<heap, callerHeap, pc>> /\ history'.listFailed = history.listFailed
    BY <2>0, <2>1 DEF HeapInv, Loading
  <2>2. ASSUME NEW soup, Edit(soup) PROVE HeapInv'
    BY <2>0, <2>1, <2>2 DEF Edit, HistoryShape, Fields
  <2>3. ASSUME NEW h \in Hosts, HostnameOption(h) PROVE HeapInv'
    BY <2>0, <2>1, <2>3 DEF HostnameOption, HistoryShape, Fields
  <2>4. CASE CertificateAuthorityOption
    BY <2>0, <2>1, <2>4 DEF CertificateAuthorityOption, HistoryShape, Fields
  <2>5. CASE ConfigureStart
    <3>1. history'.listFailed = history.listFailed
      BY <2>0, <2>5, StartShape
    <3> QED
      BY <2>0, <2>5, <3>1 DEF ConfigureStart, HeapInv, Loading, Idle
  <2>6. CASE ListSizeRPC \/ ListRPC
    BY <2>0, <2>6 DEF ListSizeRPC, ListRPC, ListFails, ListMistaken, HeapInv, HistoryShape,
          Fields, Loading
  <2>7. ASSUME NEW tag, NEW rest, NEW storeError, GetOne(tag, rest, storeError)
        PROVE  history'.listFailed = history.listFailed
    BY <2>0, <2>7 DEF GetOne, HistoryShape, Fields
  <2>8. CASE NextName \/ TornName
    BY <2>1, <2>7, <2>8 DEF NextName, TornName
  <2>9. CASE EndOfNames
    BY <2>0, <2>9 DEF EndOfNames, HeapInv, HistoryShape, Fields, Loading
  <2>10. CASE ConfigureEnds
    BY <2>0, <2>10 DEF ConfigureEnds, HeapInv, HistoryShape, Fields, Loading
  <2>11. CASE CloseStart
    BY <2>0, <2>1, <2>11, ConnectionClosedShape DEF CloseStart, NextConnection
  <2>12. CASE Delete
    BY <2>0, <2>1, <2>12 DEF Delete, NextConnection, NewHistory
  <2>13. CASE UNCHANGED <<heap, callerHeap, pc, history>>
    BY <2>1, <2>13
  <2> QED
    BY <2>2, <2>3, <2>4, <2>5, <2>6, <2>8, <2>9, <2>10, <2>11, <2>12, <2>13
       DEF TrustNext, Load, AddEntry, RemoveEntry, VerifyModeOption, trustVars
<1>3. HeapInv => HeapRestored
  BY DEF HeapInv, HeapRestored
<1> QED
  BY <1>1, <1>2, <1>3, PTL DEF TrustSpec

(***************************************************************************)
(* The client's authorities.                                               *)
(***************************************************************************)
\* Once they were first, roots are neither loaded nor being loaded, and no
\* later option turns loading on again.
CAInv ==
    /\ HistoryShape
    /\ history.caFirst =>
          Roots(mSSLCAChain) = {} /\ mSSLLoadRootCertificates = FALSE /\ ~Loading

\* README: the client's authorities replace the default roots, on this and on
\* every later connection of the instance, whatever options follow and even
\* when an authority could not be parsed.
THEOREM CAAlwaysReplacesRoots == TrustSpec => []CAReplacesRoots
<1>1. TrustInit => CAInv
  BY ShapeInit DEF CAInv
<1>2. CAInv /\ [TrustNext]_trustVars => CAInv'
  <2> SUFFICES ASSUME CAInv, [TrustNext]_trustVars PROVE CAInv'
    OBVIOUS
  <2>0. HistoryShape /\ HistoryShape'
    BY ShapeStep DEF CAInv
  <2>1. CASE /\ UNCHANGED <<mSSLCAChain, mSSLLoadRootCertificates>>
             /\ Loading' => Loading
             /\ history'.caFirst = history.caFirst
    BY <2>0, <2>1 DEF CAInv, Roots
  <2>2. ASSUME NEW soup, Edit(soup) PROVE CAInv'
    BY <2>0, <2>1, <2>2 DEF Edit, HistoryShape, Fields, optionVars, chainVars, Loading
  <2>3. ASSUME NEW h \in Hosts, HostnameOption(h) PROVE CAInv'
    BY <2>0, <2>1, <2>3 DEF HostnameOption, HistoryShape, Fields, chainVars, Loading
  <2>4. ASSUME NEW mode \in Modes, VerifyModeOption(mode) PROVE CAInv'
    <3>1. mSSLLoadRootCertificates = FALSE => mSSLLoadRootCertificates' = FALSE
      BY <2>4, Zenon DEF VerifyModeOption
    <3> QED
      BY <2>0, <2>4, <3>1 DEF VerifyModeOption, CAInv, chainVars, Loading, Roots
  <2>5. CASE CertificateAuthorityOption
    <3>1. Roots(mSSLCAChain') = Roots(mSSLCAChain)
      BY <2>5 DEF CertificateAuthorityOption, Roots
    <3>2. history'.caFirst => history.caFirst \/ Roots(mSSLCAChain) = {}
      BY <2>0, <2>5 DEF CertificateAuthorityOption, HistoryShape, Fields
    <3> QED
      BY <2>0, <2>5, <3>1, <3>2 DEF CertificateAuthorityOption, CAInv, Loading, Idle
  <2>6. CASE ConfigureStart
    <3>1. history'.caFirst = history.caFirst
      BY <2>0, <2>6, StartShape
    <3> QED
      BY <2>0, <2>6, <3>1
         DEF ConfigureStart, ConfigureUnchanged, CAInv, Loading, optionVars, chainVars, Roots
  <2>7. CASE ListSizeRPC \/ ListRPC
    BY <2>0, <2>1, <2>7 DEF ListSizeRPC, ListRPC, ListFails, ListMistaken, ConfigureUnchanged,
          HistoryShape, Fields, Loading, optionVars, chainVars
  <2>8. ASSUME NEW tag, NEW rest, NEW storeError, GetOne(tag, rest, storeError)
        PROVE  history'.caFirst = history.caFirst
    BY <2>0, <2>8 DEF GetOne, HistoryShape, Fields
  <2>9. CASE NextName \/ TornName
    <3>1. Loading /\ history'.caFirst = history.caFirst
      BY <2>8, <2>9 DEF NextName, TornName, Loading
    <3> QED
      BY <2>0, <3>1 DEF CAInv
  <2>10. CASE EndOfNames
    BY <2>0, <2>1, <2>10 DEF EndOfNames, ConfigureUnchanged, HistoryShape, Fields, Loading,
          optionVars, chainVars
  <2>11. CASE ConfigureEnds
    BY <2>0, <2>1, <2>11 DEF ConfigureEnds, HistoryShape, Fields, Loading
  <2>12. CASE CloseStart
    BY <2>0, <2>1, <2>12, ConnectionClosedShape DEF CloseStart, NextConnection, Loading
  <2>13. CASE Delete
    BY <2>0, <2>13 DEF Delete, NewHistory, CAInv
  <2>14. CASE UNCHANGED trustVars
    BY <2>1, <2>14 DEF trustVars, optionVars, chainVars, Loading
  <2> QED
    BY <2>2, <2>3, <2>4, <2>5, <2>6, <2>7, <2>9, <2>10, <2>11, <2>12, <2>13, <2>14
       DEF TrustNext, Load, AddEntry, RemoveEntry
<1>3. CAInv => CAReplacesRoots
  BY DEF CAInv, CAReplacesRoots
<1> QED
  BY <1>1, <1>2, <1>3, PTL DEF TrustSpec

(***************************************************************************)
(* The name mbedtls checks.                                                *)
(***************************************************************************)
\* Unless one was left, the name that waits is the first one given since the
\* last configuration, and the one of the ssl context is what such a name was.
NameInv ==
    /\ HistoryShape
    /\ history.nameLeft # "waits" => mSSLHostname = history.firstName
    /\ history.nameLeft = "no" => sslHostname = history.asked

\* The name of the ssl context is the first one given since the configuration
\* before, or else the one of the last configuration that had one, however
\* many names, configurations, connections and failures there were; unless a
\* connection that was never configured left a name behind.
THEOREM NameAlwaysAsGiven == TrustSpec => []NameAsGiven
<1>1. TrustInit => NameInv
  BY ShapeInit DEF TrustInit, NameInv
<1>2. NameInv /\ [TrustNext]_trustVars => NameInv'
  <2> SUFFICES ASSUME NameInv, [TrustNext]_trustVars PROVE NameInv'
    OBVIOUS
  <2>0. HistoryShape /\ HistoryShape'
    BY ShapeStep DEF NameInv
  <2> DEFINE NamesSame == /\ history'.nameLeft = history.nameLeft
                          /\ history'.firstName = history.firstName
                          /\ history'.asked = history.asked
  <2>1. CASE UNCHANGED <<sslHostname, mSSLHostname>> /\ NamesSame
    BY <2>0, <2>1 DEF NameInv
  <2>2. ASSUME NEW soup, Edit(soup) PROVE NameInv'
    BY <2>0, <2>1, <2>2 DEF Edit, HistoryShape, Fields, optionVars, chainVars
  <2>3. ASSUME NEW h \in Hosts, HostnameOption(h) PROVE NameInv'
    <3>1. /\ history'.nameLeft = history.nameLeft /\ history'.asked = history.asked
          /\ history'.firstName = IF history.firstName = NULL THEN h ELSE history.firstName
      BY <2>0, <2>3 DEF HostnameOption, HistoryShape, Fields
    <3> QED
      BY <2>0, <2>3, <3>1 DEF HostnameOption, NameInv, chainVars
  <2>4. CASE CertificateAuthorityOption
    BY <2>0, <2>1, <2>4 DEF CertificateAuthorityOption, HistoryShape, Fields
  <2>5. CASE ConfigureStart
    BY <2>0, <2>1, <2>5, StartShape DEF ConfigureStart, ConfigureUnchanged, optionVars, chainVars
  <2>6. CASE ListSizeRPC \/ ListRPC
    <3>1. NamesSame
      BY <2>0, <2>6 DEF ListSizeRPC, ListRPC, ListFails, ListMistaken, HistoryShape, Fields
    <3> QED
      BY <2>1, <2>6, <3>1 DEF ListSizeRPC, ListRPC, ConfigureUnchanged, optionVars, chainVars
  <2>7. ASSUME NEW tag, NEW rest, NEW storeError, GetOne(tag, rest, storeError) PROVE NamesSame
    BY <2>0, <2>7 DEF GetOne, HistoryShape, Fields
  <2>8. CASE NextName \/ TornName
    BY <2>1, <2>7, <2>8 DEF NextName, TornName, ConfigureUnchanged, optionVars
  <2>9. CASE EndOfNames
    BY <2>0, <2>1, <2>9
       DEF EndOfNames, ConfigureUnchanged, HistoryShape, Fields, optionVars, chainVars
  <2>10. CASE ConfigureEnds
    <3>1. /\ history'.firstName = NULL
          /\ history'.asked = IF history.firstName = NULL THEN history.asked ELSE history.firstName
          /\ history'.nameLeft = IF history.nameLeft = "waits" THEN "used"
                                 ELSE IF history.firstName = NULL THEN history.nameLeft ELSE "no"
      BY <2>0, <2>10 DEF ConfigureEnds, HistoryShape, Fields
    <3> QED
      BY <2>0, <2>10, <3>1 DEF ConfigureEnds, NameInv
  <2>11. CASE CloseStart
    BY <2>0, <2>11, ConnectionClosedShape DEF CloseStart, NameInv
  <2>12. CASE Delete
    <3>1. history'.firstName = NULL /\ history'.asked = NULL
      BY <2>12 DEF Delete, NewHistory
    <3> QED
      BY <2>0, <2>12, <3>1 DEF Delete, NameInv
  <2>13. CASE UNCHANGED <<sslHostname, mSSLHostname, history>>
    BY <2>1, <2>13
  <2> QED
    BY <2>2, <2>3, <2>4, <2>5, <2>6, <2>8, <2>9, <2>10, <2>11, <2>12, <2>13
       DEF TrustNext, Load, AddEntry, RemoveEntry, VerifyModeOption, trustVars, chainVars, optionVars
<1>3. NameInv => NameAsGiven
  BY DEF NameInv, NameAsGiven
<1> QED
  BY <1>1, <1>2, <1>3, PTL DEF TrustSpec

(***************************************************************************)
(* The soups and the lists made from them.                                 *)
(***************************************************************************)
\* A set of positions has a first one.
LEMMA FirstPosition ==
    ASSUME NEW T, T \subseteq Nat, T # {}
    PROVE  \E x \in T : \A y \in T : ~(y < x)
<1>1. IsWellFoundedOn(OpToRel(<, Nat), Nat)
  BY NatLessThanWellFounded
<1>2. PICK x \in T : \A y \in T : <<y, x>> \notin OpToRel(<, Nat)
  BY <1>1, WFMin
<1>3. \A y \in T : ~(y < x)
  BY <1>2 DEF OpToRel
<1> QED
  BY <1>3

\* CursorEntry finds an entry exactly for the tags of the soup.
LEMMA EntryFound ==
    ASSUME NEW soup \in Seq(Entries), NEW t
    PROVE  t \in TagsOf(soup) <=> EntryFor(soup, t) # {}
<1>1. ASSUME t \in TagsOf(soup) PROVE EntryFor(soup, t) # {}
  <2> DEFINE T == {k \in 1 .. Len(soup) : soup[k].tag = t}
  <2>1. T \subseteq Nat /\ T # {}
    BY <1>1 DEF TagsOf
  <2>2. PICK x \in T : \A y \in T : ~(y < x)
    BY <2>1, FirstPosition
  <2>3. x \in 1 .. Len(soup) /\ soup[x].tag = t /\ Len(soup) \in Nat
    BY <2>2, LenProperties
  <2>4. \A j \in 1 .. x - 1 : j \in 1 .. Len(soup) /\ j < x
    BY <2>3
  <2>5. \A j \in 1 .. x - 1 : soup[j].tag # t
    BY <2>2, <2>4
  <2> QED
    BY <2>3, <2>5 DEF EntryFor
<1>2. ASSUME EntryFor(soup, t) # {} PROVE t \in TagsOf(soup)
  BY <1>2 DEF EntryFor, TagsOf
<1> QED
  BY <1>1, <1>2

\* What GetRootCertificate returns without a store error: never a certificate
\* of a disabled tag, never the built-in one of an overridden tag.
LEMMA GotCertificate ==
    ASSUME unionSoup \in Seq(Entries), NEW tag, NEW e \in GetRootCertificate(tag, FALSE)
    PROVE  /\ e.cert.tag = tag
           /\ tag \notin Disabled(unionSoup)
           /\ e.cert.from = "builtin" => tag \notin TagsOf(unionSoup)
<1>1. e \in FoundEntry(tag, FALSE) /\ e.trust
  BY DEF GetRootCertificate
<1>2. CASE EntryFor(unionSoup, tag) # {}
  <2>1. PICK u \in EntryFor(unionSoup, tag) :
           e = [cert |-> [tag |-> tag, from |-> "user"], trust |-> u.trust, len |-> u.len]
    BY <1>1, <1>2 DEF FoundEntry
  <2>2. e.cert.tag = tag /\ e.cert.from = "user" /\ u.trust
    BY <1>1, <2>1
  <2> QED
    BY <2>1, <2>2 DEF Disabled
<1>3. CASE EntryFor(unionSoup, tag) = {}
  <2>1. e.cert.tag = tag
    BY <1>1, <1>3 DEF FoundEntry
  <2>2. tag \notin TagsOf(unionSoup)
    BY <1>3, EntryFound
  <2> QED
    BY <2>1, <2>2 DEF Disabled
<1> QED
  BY <1>2, <1>3

\* The built-in root of a tag no entry has is returned, and is its size long.
LEMMA GotBuiltIn ==
    ASSUME unionSoup \in Seq(Entries), NEW t \in ToSet(BuiltIn), t \notin TagsOf(unionSoup)
    PROVE  [tag |-> t, from |-> "builtin"] \in {e.cert : e \in GetRootCertificate(t, FALSE)}
<1>1. EntryFor(unionSoup, t) = {}
  BY EntryFound
<1> DEFINE found == [cert |-> [tag |-> t, from |-> "builtin"], trust |-> TRUE, len |-> 1]
<1>2. found \in FoundEntry(t, FALSE)
  BY <1>1 DEF FoundEntry
<1>3. found.trust = TRUE /\ found.len = 1 /\ found.cert = [tag |-> t, from |-> "builtin"]
  OBVIOUS
<1> HIDE DEF found
<1>4. found \in GetRootCertificate(t, FALSE)
  <2>1. found.len > 0
    BY <1>3
  <2>2. found.trust
    BY <1>3
  <2> QED
    BY <1>2, <2>1, <2>2, Zenon DEF GetRootCertificate
<1> QED
  BY <1>3, <1>4

\* Positions counted from the first: no two have the same count.
LEMMA CountsDiffer ==
    ASSUME NEW kept, kept \subseteq Nat, IsFiniteSet(kept), NEW k \in kept
    PROVE  /\ Cardinality({j \in kept : j <= k}) \in 1 .. Cardinality(kept)
           /\ \A m \in kept : Cardinality({j \in kept : j <= m}) = Cardinality({j \in kept : j <= k})
                              => m = k
<1> DEFINE upto(m) == {j \in kept : j <= m}
<1>1. \A m \in kept : upto(m) \in SUBSET kept /\ IsFiniteSet(upto(m)) /\ m \in upto(m)
  BY FS_Subset
<1>2. Cardinality(upto(k)) \in Nat /\ Cardinality(kept) \in Nat
  BY <1>1, FS_CardinalityType
<1>3. Cardinality(upto(k)) <= Cardinality(kept)
  BY <1>1, FS_Subset
<1>4. Cardinality(upto(k)) # 0
  BY <1>1, FS_EmptySet
<1>5. ASSUME NEW m \in kept, Cardinality(upto(m)) = Cardinality(upto(k)) PROVE m = k
  <2>1. upto(m) \in SUBSET upto(k) \/ upto(k) \in SUBSET upto(m)
    <3>1. m \in Nat /\ k \in Nat /\ \A j \in kept : j \in Nat
      OBVIOUS
    <3>2. CASE m <= k
      <4>1. \A j \in kept : j <= m => j <= k
        BY <3>1, <3>2
      <4> QED
        BY <4>1
    <3>3. CASE k <= m
      <4>1. \A j \in kept : j <= k => j <= m
        BY <3>1, <3>3
      <4> QED
        BY <4>1
    <3> QED
      BY <3>1, <3>2, <3>3
  <2>2. upto(m) = upto(k)
    BY <1>1, <1>5, <2>1, FS_Subset
  <2> QED
    BY <1>1, <2>2
<1> QED
  BY <1>2, <1>3, <1>4, <1>5

\* The list of the built-ins that are not overridden has each of them.
LEMMA NotOverriddenLists ==
    ASSUME NEW soup
    PROVE  /\ NotOverridden(soup) \in Seq(AllTags)
           /\ \A t \in ToSet(BuiltIn) : t \notin TagsOf(soup) => t \in ToSet(NotOverridden(soup))
<1> DEFINE kept == {k \in DOMAIN BuiltIn : BuiltIn[k] \notin TagsOf(soup)}
           upto(k) == {j \in kept : j <= k}
           list == [n \in 1 .. Cardinality(kept) |->
                       BuiltIn[CHOOSE k \in kept : Cardinality(upto(k)) = n]]
<1>1. BuiltIn \in Seq(AllTags) /\ DOMAIN BuiltIn = 1 .. Len(BuiltIn) /\ Len(BuiltIn) \in Nat
  BY TrustAssumption, LenProperties
<1>2. kept \subseteq Nat /\ IsFiniteSet(kept)
  <2>1. kept \in SUBSET (1 .. Len(BuiltIn))
    BY <1>1
  <2>2. IsFiniteSet(1 .. Len(BuiltIn))
    BY <1>1, FS_Interval
  <2> HIDE DEF kept
  <2>3. IsFiniteSet(kept)
    BY <2>1, <2>2, FS_Subset
  <2> QED
    BY <1>1, <2>1, <2>3
<1>3. NotOverridden(soup) = list
  BY DEF NotOverridden
<1>4. \A k \in kept :
         /\ Cardinality(upto(k)) \in 1 .. Cardinality(kept)
         /\ \A m \in kept : Cardinality(upto(m)) = Cardinality(upto(k)) => m = k
  BY <1>2, CountsDiffer
<1>5. Cardinality(kept) \in Nat
  BY <1>2, FS_CardinalityType
<1>6. \A n \in 1 .. Cardinality(kept) : \E k \in kept : Cardinality(upto(k)) = n
  <2> DEFINE f == [k \in kept |-> Cardinality(upto(k))]
             N == 1 .. Cardinality(kept)
  <2>1. f \in Injection(kept, N)
    BY <1>4 DEF Injection, IsInjective
  <2>2. IsFiniteSet(N) /\ Cardinality(N) = Cardinality(kept)
    BY <1>5, FS_Interval
  <2>3. f \in Surjection(kept, N)
    <3> HIDE DEF f, N
    <3> QED
      BY <2>1, <2>2, FS_Injection
  <2> QED
    BY <2>3 DEF Surjection
<1>7. \A n \in 1 .. Cardinality(kept) : (CHOOSE k \in kept : Cardinality(upto(k)) = n) \in kept
  BY <1>6
<1>8. \A k \in kept : BuiltIn[k] \in AllTags
  BY <1>1, ElementOfSeq
<1>9. list \in [1 .. Cardinality(kept) -> AllTags]
  BY <1>7, <1>8
<1>10. list \in Seq(AllTags)
  <2> HIDE DEF list
  <2> QED
    BY <1>5, <1>9, SeqDef
<1>11. ASSUME NEW k \in kept PROVE BuiltIn[k] \in ToSet(list)
  <2> DEFINE n == Cardinality(upto(k))
  <2>1. n \in 1 .. Cardinality(kept) /\ (CHOOSE m \in kept : Cardinality(upto(m)) = n) = k
    BY <1>4
  <2>2. n \in DOMAIN list /\ list[n] = BuiltIn[k]
    BY <2>1
  <2> HIDE DEF list, n
  <2> QED
    BY <2>2 DEF ToSet
<1>12. \A t \in ToSet(BuiltIn) : t \notin TagsOf(soup) => \E k \in kept : t = BuiltIn[k]
  BY DEF ToSet
<1> QED
  BY <1>3, <1>10, <1>11, <1>12

\* The list of all names has them too.
LEMMA RootNamesList ==
    ASSUME NEW soup \in Seq(Entries)
    PROVE  /\ RootNames(soup) \in Seq(AllTags)
           /\ \A t \in ToSet(BuiltIn) : t \notin TagsOf(soup) => t \in ToSet(RootNames(soup))
<1> DEFINE first == NotOverridden(soup)
           visited == Visited(soup, CursorStep)
           second == [k \in DOMAIN visited |-> visited[k].tag]
           last == (Len(soup) + CursorStep - 1) \div CursorStep
<1>1. first \in Seq(AllTags)
  BY NotOverriddenLists
<1>2. Len(soup) \in Nat /\ \A i \in 1 .. Len(soup) : soup[i].tag \in AllTags
  <2>1. Len(soup) \in Nat /\ \A i \in 1 .. Len(soup) : soup[i] \in Entries
    BY LenProperties, ElementOfSeq
  <2> QED
    BY <2>1 DEF Entries, AllTags
<1>3. last \in Nat /\ \A k \in 1 .. last : 1 + (k - 1) * CursorStep \in 1 .. Len(soup)
  BY <1>2 DEF CursorStep
<1>4. DOMAIN visited = 1 .. last /\ \A k \in 1 .. last : visited[k] = soup[1 + (k - 1) * CursorStep]
  BY DEF Visited
<1>5. second \in [1 .. last -> AllTags]
  <2> HIDE DEF last
  <2>1. \A k \in 1 .. last : visited[k].tag \in AllTags
    BY <1>2, <1>3, <1>4
  <2> HIDE DEF visited
  <2> QED
    BY <1>4, <2>1
<1>6. second \in Seq(AllTags)
  <2> HIDE DEF last, second
  <2> QED
    BY <1>3, <1>5, SeqDef
<1> HIDE DEF first, second
<1>7. RootNames(soup) = first \o second
  BY DEF RootNames, first, second
<1>8. first \o second \in Seq(AllTags)
  BY <1>1, <1>6, ConcatProperties
<1>9. ToSet(first) \subseteq ToSet(first \o second)
  <2>1. /\ DOMAIN first = 1 .. Len(first) /\ Len(first) \in Nat /\ Len(second) \in Nat
        /\ DOMAIN (first \o second) = 1 .. Len(first) + Len(second)
    BY <1>1, <1>6, <1>8, ConcatProperties, LenProperties
  <2>2. \A i \in 1 .. Len(first) : i \in 1 .. Len(first) + Len(second) /\ (first \o second)[i] = first[i]
    BY <1>1, <1>6, <2>1, ConcatProperties
  <2> QED
    BY <2>1, <2>2 DEF ToSet
<1> QED
  BY <1>7, <1>8, <1>9, NotOverriddenLists DEF first

\* A list has a number of bytes.
LEMMA BytesType ==
    ASSUME NEW list \in Seq(AllTags)
    PROVE  Bytes(list) \in Nat
<1> DEFINE of(k) == {k} \X (1 .. TagSize[list[k]])
           all == {of(k) : k \in 1 .. Len(list)}
           f == [k \in 1 .. Len(list) |-> of(k)]
<1>1. Len(list) \in Nat /\ \A k \in 1 .. Len(list) : TagSize[list[k]] \in Nat
  BY LenProperties, ElementOfSeq, TrustAssumption
<1>2. IsFiniteSet(1 .. Len(list))
  BY <1>1, FS_Interval
<1>3. ASSUME NEW k \in 1 .. Len(list) PROVE IsFiniteSet(of(k))
  <2>1. IsFiniteSet({k}) /\ IsFiniteSet(1 .. TagSize[list[k]])
    <3> DEFINE size == TagSize[list[k]]
    <3>1. size \in Int /\ 1 \in Int
      BY <1>1
    <3> HIDE DEF size
    <3>2. IsFiniteSet(1 .. size)
      BY <3>1, FS_Interval
    <3> QED
      BY <3>2, FS_Singleton DEF size
  <2> QED
    BY <2>1, FS_Product
<1>4. f \in Surjection(1 .. Len(list), all)
  BY DEF Surjection
<1>5. IsFiniteSet(all)
  <2> HIDE DEF f, all
  <2> QED
    BY <1>2, <1>4, FS_Surjection
<1>6. \A T \in all : IsFiniteSet(T)
  BY <1>3
<1>7. IsFiniteSet(UNION all)
  <2> HIDE DEF all
  <2> QED
    BY <1>5, <1>6, FS_UNION
<1> QED
  BY <1>7, FS_CardinalityType DEF Bytes

\* A buffer of the size of the list takes all of it.
LEMMA AllFits ==
    ASSUME NEW list \in Seq(AllTags)
    PROVE  SubSeq(list, 1, Fitting(list, Bytes(list))) = list
<1>1. SubSeq(list, 1, Len(list)) = list /\ Len(list) \in Nat /\ Bytes(list) \in Nat
  BY SubSeqFull, LenProperties, BytesType
<1> DEFINE B(k) == Bytes(SubSeq(list, 1, k))
<1>2. B(Len(list)) = Bytes(list)
  BY <1>1
<1>3. Fitting(list, Bytes(list)) =
         CHOOSE k \in 0 .. Len(list) :
            B(k) <= Bytes(list) /\ \A more \in k + 1 .. Len(list) : B(more) > Bytes(list)
  BY DEF Fitting
<1> HIDE DEF B
<1>4. Len(list) \in 0 .. Len(list) /\ B(Len(list)) <= Bytes(list)
      /\ \A more \in Len(list) + 1 .. Len(list) : B(more) > Bytes(list)
  BY <1>1, <1>2
<1>5. ASSUME NEW k \in 0 .. Len(list), \A more \in k + 1 .. Len(list) : B(more) > Bytes(list)
      PROVE  k = Len(list)
  <2>1. k # Len(list) => Len(list) \in k + 1 .. Len(list)
    <3>1. \A n \in Nat : \A m \in 0 .. n : m # n => n \in m + 1 .. n
      OBVIOUS
    <3> QED
      BY <1>1, <3>1, Zenon
  <2>2. ~(B(Len(list)) > Bytes(list))
    <3>1. \A b \in Nat : ~(b > b)
      OBVIOUS
    <3>2. ~(Bytes(list) > Bytes(list))
      BY <1>1, <3>1, Zenon
    <3> QED
      BY <1>2, <3>2, Zenon
  <2> QED
    BY <1>5, <2>1, <2>2
<1> DEFINE Takes(k) == B(k) <= Bytes(list)
                       /\ \A more \in k + 1 .. Len(list) : B(more) > Bytes(list)
           chosen == CHOOSE k \in 0 .. Len(list) : Takes(k)
<1>6. chosen \in 0 .. Len(list) /\ Takes(chosen)
  <2>1. Len(list) \in 0 .. Len(list) /\ Takes(Len(list))
    BY <1>4
  <2> HIDE DEF Takes
  <2> QED
    BY <2>1, Zenon
<1>7. Fitting(list, Bytes(list)) = Len(list)
  BY <1>3, <1>5, <1>6
<1> QED
  BY <1>1, <1>7

\* The user's edits keep the soup a sequence of entries.
LEMMA EditedSoup ==
    ASSUME unionSoup \in Seq(Entries)
    PROVE  /\ \A e \in Entries : Append(unionSoup, e) \in Seq(Entries)
           /\ \A i \in 1 .. Len(unionSoup) : RemoveAt(unionSoup, i) \in Seq(Entries)
<1>1. Len(unionSoup) \in Nat /\ \A i \in 1 .. Len(unionSoup) : unionSoup[i] \in Entries
  BY LenProperties, ElementOfSeq
<1>2. ASSUME NEW i \in 1 .. Len(unionSoup) PROVE RemoveAt(unionSoup, i) \in Seq(Entries)
  <2> DEFINE m == i - 1  n == i + 1
  <2>1. /\ 1 \in Int /\ m \in Int /\ n \in Int /\ Len(unionSoup) \in Int
        /\ \A k \in 1 .. m : unionSoup[k] \in Entries
        /\ \A k \in n .. Len(unionSoup) : unionSoup[k] \in Entries
    BY <1>1
  <2> HIDE DEF m, n
  <2>2. SubSeq(unionSoup, 1, m) \in Seq(Entries)
    BY <2>1, SubSeqProperties
  <2>3. SubSeq(unionSoup, n, Len(unionSoup)) \in Seq(Entries)
    BY <2>1, SubSeqProperties
  <2>4. SubSeq(unionSoup, 1, m) \o SubSeq(unionSoup, n, Len(unionSoup)) \in Seq(Entries)
    BY <2>2, <2>3, ConcatProperties
  <2> QED
    BY <2>4 DEF RemoveAt, m, n
<1> QED
  BY <1>2, AppendProperties

(***************************************************************************)
(* The roots.  While they are loaded, what the history says of the soup is *)
(* true of the soup as it is; without an interference it is all there is   *)
(* to say, and a built-in that is due is in the list or in the chain.      *)
(***************************************************************************)
BuiltInCert(t) == [tag |-> t, from |-> "builtin"]
BuiltInsDue == ToSet(BuiltIn) \ history.overridden

SoupKnown ==
    Loading => /\ history.overridden \subseteq TagsOf(unionSoup)
               /\ history.disabled \subseteq Disabled(unionSoup)

ChainKnown == Roots(mSSLCAChain) \subseteq history.kept \cup history.loaded

LoadedOK ==
    ~history.storeFailed =>
        \A c \in history.loaded :
            /\ c.tag \notin history.disabled
            /\ c.from = "builtin" => c.tag \notin history.overridden

QuietOK ==
    history.quiet =>
        /\ Loading => history.overridden = TagsOf(unionSoup)
        /\ pc = "list" => listSize = Bytes(RootNames(unionSoup))
        /\ pc = "names" =>
              /\ names \in Seq(AllTags)
              /\ \A t \in BuiltInsDue : t \in ToSet(names) \/ BuiltInCert(t) \in mSSLCAChain

CompleteOK ==
    history.complete =>
        /\ ~Loading
        /\ history.quiet => \A t \in BuiltInsDue : BuiltInCert(t) \in mSSLCAChain

RootsInv ==
    /\ HistoryShape /\ unionSoup \in Seq(Entries)
    /\ SoupKnown /\ ChainKnown /\ LoadedOK /\ QuietOK /\ CompleteOK

\* Steps that are about something else, and those that end the loading.
LEMMA RootsFrame ==
    ASSUME RootsInv, HistoryShape', unionSoup' = unionSoup, mSSLCAChain \subseteq mSSLCAChain',
           Roots(mSSLCAChain') = Roots(mSSLCAChain), history'.kept = history.kept,
           Loading' => Loading /\ UNCHANGED <<pc, listSize, names>>,
           history'.quiet => history.quiet, history'.complete = history.complete,
           history'.loaded = history.loaded, history'.storeFailed = history.storeFailed,
           history'.overridden = history.overridden, history'.disabled = history.disabled
    PROVE  RootsInv'
<1>1. SoupKnown' /\ ChainKnown' /\ LoadedOK'
  BY DEF RootsInv, SoupKnown, ChainKnown, LoadedOK, TagsOf, Disabled, EntryFor
<1>2. CompleteOK'
  BY DEF RootsInv, CompleteOK, BuiltInsDue
<1>3. QuietOK'
  <2> SUFFICES ASSUME history'.quiet, Loading' PROVE QuietOK'
    BY DEF QuietOK, Loading
  <2> QED
    BY DEF RootsInv, QuietOK, BuiltInsDue, TagsOf, RootNames, NotOverridden, Visited
<1> QED
  BY <1>1, <1>2, <1>3 DEF RootsInv

\* An edit between two calls: what is still true of the soup is remembered.
LEMMA RootsEdit ==
    ASSUME RootsInv, HistoryShape', NEW soup \in Seq(Entries), Edit(soup)
    PROVE  RootsInv'
<1>1. /\ unionSoup' = soup
      /\ UNCHANGED <<mSSLCAChain, pc, listSize, names>>
  BY DEF Edit, chainVars, listVars
<1>2. CASE pc = "idle"
  <2>1. history' = history
    BY <1>2 DEF Edit
  <2>2. ~Loading'
    BY <1>1, <1>2 DEF Loading
  <2> QED
    BY <1>1, <2>1, <2>2
       DEF RootsInv, SoupKnown, ChainKnown, LoadedOK, QuietOK, CompleteOK, BuiltInsDue, Loading
<1>3. CASE pc # "idle"
  <2>1. /\ history'.quiet = FALSE /\ history'.complete = history.complete
        /\ history'.loaded = history.loaded /\ history'.storeFailed = history.storeFailed
        /\ history'.kept = history.kept
        /\ history'.overridden = history.overridden \cap TagsOf(soup)
        /\ history'.disabled = history.disabled \cap Disabled(soup)
    BY <1>3 DEF Edit, RootsInv, HistoryShape, Fields
  <2>2. Loading' = Loading
    BY <1>1 DEF Loading
  <2>3. SoupKnown' /\ ChainKnown' /\ LoadedOK' /\ QuietOK' /\ CompleteOK'
    BY <1>1, <2>1, <2>2 DEF RootsInv, SoupKnown, ChainKnown, LoadedOK, QuietOK, CompleteOK
  <2> QED
    BY <1>1, <2>3 DEF RootsInv
<1> QED
  BY <1>2, <1>3

LEMMA RootsConfigureStart ==
    ASSUME RootsInv, HistoryShape', ConfigureStart PROVE RootsInv'
<1>1. /\ Idle /\ ~Loading
      /\ UNCHANGED <<unionSoup, mSSLCAChain, listSize, names>>
  BY DEF ConfigureStart, ConfigureUnchanged, chainVars, listVars, Idle, Loading
<1>2. CASE UNCHANGED <<pc, history>>
  BY <1>1, <1>2, RootsFrame DEF Loading
<1> DEFINE n == NothingLoaded
<1>0. /\ n = [f \in Fields |-> n[f]]
      /\ n.loaded = {} /\ n.complete = FALSE /\ n.kept = Roots(mSSLCAChain)
  BY NothingLoadedShape DEF RootsInv
<1>3. CASE /\ pc' = "size"
           /\ history' = [n EXCEPT !.quiet = TRUE,
                !.overridden = TagsOf(unionSoup), !.disabled = Disabled(unionSoup)]
  <2> HIDE DEF n
  <2>1. /\ history'.loaded = {} /\ history'.complete = FALSE /\ history'.kept = Roots(mSSLCAChain)
        /\ history'.overridden = TagsOf(unionSoup) /\ history'.disabled = Disabled(unionSoup)
    BY <1>0, <1>3 DEF Fields
  <2> QED
    BY <1>1, <1>3, <2>1 DEF RootsInv, SoupKnown, ChainKnown, LoadedOK, QuietOK, CompleteOK
<1>4. CASE pc' = "setup" /\ history' = n
  <2> HIDE DEF n
  <2>1. /\ history'.loaded = {} /\ history'.complete = FALSE
        /\ history'.kept = Roots(mSSLCAChain)
    BY <1>0, <1>4
  <2>2. ~Loading' /\ pc' # "list" /\ pc' # "names"
    BY <1>4 DEF Loading
  <2> QED
    BY <1>1, <2>1, <2>2 DEF RootsInv, SoupKnown, ChainKnown, LoadedOK, QuietOK, CompleteOK
<1> QED
  BY <1>2, <1>3, <1>4 DEF ConfigureStart

\* The two calls for the list.  When nobody edited the soup between them, the
\* buffer of the first takes the list of the second.
LEMMA RootsLists ==
    ASSUME RootsInv, HistoryShape', ListSizeRPC \/ ListRPC PROVE RootsInv'
<1>1. UNCHANGED <<unionSoup, mSSLCAChain>>
  BY DEF ListSizeRPC, ListRPC, ConfigureUnchanged, chainVars
<1>2. CASE ListFails
  <2>1. /\ history'.quiet = FALSE /\ history'.complete = history.complete
        /\ history'.loaded = history.loaded /\ history'.storeFailed = history.storeFailed
        /\ history'.kept = history.kept
        /\ history'.overridden = history.overridden /\ history'.disabled = history.disabled
    BY <1>2 DEF ListFails, RootsInv, HistoryShape, Fields
  <2>2. ~Loading'
    BY <1>2 DEF ListFails, Loading
  <2> QED
    BY <1>1, <2>1, <2>2, RootsFrame
<1>3. CASE /\ pc = "size" /\ pc' = "list" /\ listSize' = Bytes(RootNames(unionSoup))
           /\ history' = history
  <2>1. Loading
    BY <1>3 DEF Loading
  <2>2. RootNames(unionSoup') = RootNames(unionSoup) /\ TagsOf(unionSoup') = TagsOf(unionSoup)
        /\ Disabled(unionSoup') = Disabled(unionSoup)
    BY <1>1
  <2>3. SoupKnown' /\ ChainKnown' /\ LoadedOK' /\ CompleteOK'
    BY <1>1, <1>3, <2>1, <2>2 DEF RootsInv, SoupKnown, ChainKnown, LoadedOK, CompleteOK
  <2>4. QuietOK'
    BY <1>1, <1>3, <2>1, <2>2 DEF RootsInv, QuietOK
  <2> QED
    BY <1>1, <2>3, <2>4 DEF RootsInv
<1>4. CASE /\ pc = "list" /\ pc' = "names" /\ history' = history
           /\ names' = SubSeq(RootNames(unionSoup), 1, Fitting(RootNames(unionSoup), listSize))
  <2>1. Loading
    BY <1>4 DEF Loading
  <2>2. TagsOf(unionSoup') = TagsOf(unionSoup) /\ Disabled(unionSoup') = Disabled(unionSoup)
    BY <1>1
  <2>3. SoupKnown' /\ ChainKnown' /\ LoadedOK' /\ CompleteOK'
    BY <1>1, <1>4, <2>1, <2>2 DEF RootsInv, SoupKnown, ChainKnown, LoadedOK, CompleteOK
  <2>4. ASSUME history.quiet
        PROVE  /\ names' = RootNames(unionSoup) /\ names' \in Seq(AllTags)
               /\ \A t \in BuiltInsDue : t \in ToSet(names')
    <3>1. listSize = Bytes(RootNames(unionSoup)) /\ history.overridden = TagsOf(unionSoup)
      BY <1>4, <2>1, <2>4 DEF RootsInv, QuietOK
    <3>2. /\ RootNames(unionSoup) \in Seq(AllTags)
          /\ \A t \in ToSet(BuiltIn) : t \notin TagsOf(unionSoup) => t \in ToSet(RootNames(unionSoup))
      BY RootNamesList DEF RootsInv
    <3>3. names' = RootNames(unionSoup)
      BY <1>4, <3>1, <3>2, AllFits
    <3> QED
      BY <3>1, <3>2, <3>3 DEF BuiltInsDue
  <2>5. QuietOK'
    BY <1>1, <1>4, <2>1, <2>2, <2>4 DEF RootsInv, QuietOK, BuiltInsDue
  <2> QED
    BY <1>1, <2>3, <2>5 DEF RootsInv
<1>5. CASE ListMistaken /\ Loading /\ pc' \in {"list", "names"}
  <2>1. /\ history'.quiet = FALSE /\ history'.complete = history.complete
        /\ history'.loaded = history.loaded /\ history'.storeFailed = history.storeFailed
        /\ history'.kept = history.kept
        /\ history'.overridden = history.overridden /\ history'.disabled = history.disabled
    BY <1>5 DEF ListMistaken, RootsInv, HistoryShape, Fields
  <2>2. TagsOf(unionSoup') = TagsOf(unionSoup) /\ Disabled(unionSoup') = Disabled(unionSoup)
    BY <1>1
  <2> QED
    BY <1>1, <1>5, <2>1, <2>2
       DEF RootsInv, SoupKnown, ChainKnown, LoadedOK, QuietOK, CompleteOK
<1> QED
  BY <1>2, <1>3, <1>4, <1>5 DEF ListSizeRPC, ListRPC, Loading

\* A turn of the loop, for a name of the list or one that was cut off.
LEMMA RootsGetOne ==
    ASSUME RootsInv, HistoryShape', UNCHANGED <<unionSoup, pc, listSize>>, pc = "names",
           NEW tag, NEW rest, NEW storeError \in BOOLEAN, GetOne(tag, rest, storeError),
           history.quiet => /\ rest \in Seq(AllTags)
                            /\ \A t \in ToSet(names) : t = tag \/ t \in ToSet(rest)
    PROVE  RootsInv'
<1> DEFINE found == GetRootCertificate(tag, storeError)
           certs == {e.cert : e \in found}
<1>1. PICK parsed \in SUBSET certs, quiet \in BOOLEAN :
         /\ history' = [history EXCEPT !.loaded = @ \cup parsed, !.quiet = @ /\ quiet,
                                       !.storeFailed = @ \/ storeError]
         /\ mSSLCAChain' = mSSLCAChain \cup parsed
         /\ quiet => ~storeError /\ (names' = names \/ (names' = rest /\ parsed = certs))
  <2>1. CASE TooLarge(found) /\ history' = [history EXCEPT !.loaded = @ \cup {},
                                   !.quiet = @ /\ ~storeError, !.storeFailed = @ \/ storeError]
    <3>1. names' = names /\ mSSLCAChain' = mSSLCAChain \cup {} /\ {} \in SUBSET certs
      BY <2>1 DEF TooLarge
    <3>2. (~storeError) \in BOOLEAN
      OBVIOUS
    <3> WITNESS {} \in SUBSET certs, (~storeError) \in BOOLEAN
    <3> QED
      BY <2>1, <3>1, Zenon
  <2>2. CASE Parsed(found, certs, rest) /\ history' = [history EXCEPT !.loaded = @ \cup certs,
                                   !.quiet = @ /\ ~storeError, !.storeFailed = @ \/ storeError]
    BY <2>2 DEF Parsed
  <2>3. CASE Parsed(found, {}, rest) /\ history' = [history EXCEPT !.loaded = @ \cup {},
                                   !.quiet = @ /\ FALSE, !.storeFailed = @ \/ storeError]
    <3>1. mSSLCAChain' = mSSLCAChain \cup {} /\ {} \in SUBSET certs
      BY <2>3 DEF Parsed
    <3> QED
      BY <2>3, <3>1
  <2> QED
    BY <2>1, <2>2, <2>3 DEF GetOne
<1>2. /\ history'.loaded = history.loaded \cup parsed
      /\ history'.quiet = (history.quiet /\ quiet)
      /\ history'.storeFailed = (history.storeFailed \/ storeError)
      /\ history'.overridden = history.overridden /\ history'.disabled = history.disabled
      /\ history'.complete = history.complete /\ history'.kept = history.kept
  BY <1>1 DEF RootsInv, HistoryShape, Fields
<1>3. Loading /\ Loading' /\ TagsOf(unionSoup') = TagsOf(unionSoup)
      /\ Disabled(unionSoup') = Disabled(unionSoup)
  BY DEF Loading
<1>4. SoupKnown' /\ ChainKnown' /\ CompleteOK'
  <2>1. SoupKnown' /\ CompleteOK'
    BY <1>2, <1>3 DEF RootsInv, SoupKnown, CompleteOK
  <2>2. ChainKnown'
    BY <1>1, <1>2 DEF RootsInv, ChainKnown, Roots
  <2> QED
    BY <2>1, <2>2
<1>5. LoadedOK'
  <2> SUFFICES ASSUME ~history.storeFailed, ~storeError, NEW c \in history.loaded \cup parsed
               PROVE  /\ c.tag \notin history.disabled
                      /\ c.from = "builtin" => c.tag \notin history.overridden
    BY <1>2 DEF LoadedOK
  <2>1. CASE c \in history.loaded
    BY <2>1 DEF RootsInv, LoadedOK
  <2>2. CASE c \in parsed
    <3>1. PICK e \in GetRootCertificate(tag, FALSE) : c = e.cert
      <4>1. storeError = FALSE
        BY Zenon
      <4> QED
        BY <1>1, <2>2, <4>1
    <3>2. /\ e.cert.tag = tag /\ tag \notin Disabled(unionSoup)
          /\ e.cert.from = "builtin" => tag \notin TagsOf(unionSoup)
      BY GotCertificate DEF RootsInv
    <3> QED
      BY <1>3, <3>1, <3>2 DEF RootsInv, SoupKnown
  <2> QED
    BY <2>1, <2>2
<1>6. QuietOK'
  <2> SUFFICES ASSUME history'.quiet PROVE QuietOK'
    BY DEF QuietOK
  <2>1. history.quiet /\ quiet /\ ~storeError /\ storeError = FALSE
    BY <1>1, <1>2
  <2>2. /\ history.overridden = TagsOf(unionSoup) /\ names \in Seq(AllTags)
        /\ \A t \in BuiltInsDue : t \in ToSet(names) \/ BuiltInCert(t) \in mSSLCAChain
    BY <1>3, <2>1 DEF RootsInv, QuietOK
  <2>3. names' \in Seq(AllTags)
    BY <1>1, <2>1, <2>2
  <2>4. ASSUME NEW t \in BuiltInsDue
        PROVE  t \in ToSet(names') \/ BuiltInCert(t) \in mSSLCAChain'
    <3>1. CASE BuiltInCert(t) \in mSSLCAChain
      BY <1>1, <3>1
    <3>2. CASE t \in ToSet(names) /\ names' = names
      BY <3>2
    <3>3. CASE t \in ToSet(names) /\ names' = rest /\ parsed = certs
      <4>1. CASE t \in ToSet(rest)
        BY <3>3, <4>1
      <4>2. CASE t = tag
        <5>1. BuiltInCert(t) \in {e.cert : e \in GetRootCertificate(t, FALSE)}
          BY <2>2, GotBuiltIn DEF BuiltInsDue, RootsInv, BuiltInCert
        <5>2. BuiltInCert(t) \in certs
          BY <2>1, <4>2, <5>1
        <5> QED
          BY <1>1, <3>3, <5>2
      <4> QED
        BY <2>1, <3>3, <4>1, <4>2
    <3> QED
      BY <1>1, <2>1, <2>2, <3>1, <3>2, <3>3
  <2>5. BuiltInsDue' = BuiltInsDue /\ pc' = "names"
    BY <1>2 DEF BuiltInsDue
  <2> QED
    BY <1>2, <1>3, <2>2, <2>3, <2>4, <2>5 DEF QuietOK
<1> QED
  BY <1>4, <1>5, <1>6 DEF RootsInv

LEMMA RootsNames ==
    ASSUME RootsInv, HistoryShape', NextName \/ TornName PROVE RootsInv'
<1>1. pc = "names" /\ UNCHANGED <<unionSoup, pc, listSize>>
  BY DEF NextName, TornName, ConfigureUnchanged
<1>2. history.quiet => names \in Seq(AllTags)
  BY <1>1 DEF RootsInv, QuietOK
<1>3. CASE NextName
  <2>1. PICK storeError \in BOOLEAN : GetOne(Head(names), Tail(names), storeError)
    BY <1>3 DEF NextName
  <2>2. ASSUME history.quiet
        PROVE  /\ Tail(names) \in Seq(AllTags)
               /\ \A t \in ToSet(names) : t = Head(names) \/ t \in ToSet(Tail(names))
    <3> DEFINE tail == Tail(names)
    <3>1. names # <<>> /\ names \in Seq(AllTags)
      BY <1>2, <1>3, <2>2 DEF NextName
    <3>2. /\ tail \in Seq(AllTags) /\ Len(tail) = Len(names) - 1
          /\ \A i \in 1 .. Len(tail) : tail[i] = names[i + 1]
      BY <3>1, HeadTailProperties
    <3>3. /\ DOMAIN names = 1 .. Len(names) /\ DOMAIN tail = 1 .. Len(tail)
          /\ Len(names) \in Nat /\ Head(names) = names[1]
      BY <3>1, <3>2, LenProperties
    <3> HIDE DEF tail
    <3>4. ASSUME NEW i \in 1 .. Len(names), i # 1 PROVE names[i] \in ToSet(tail)
      <4>1. i - 1 \in 1 .. Len(tail) /\ (i - 1) + 1 = i
        BY <3>2, <3>3, <3>4
      <4> QED
        BY <3>2, <3>3, <4>1 DEF ToSet
    <3> QED
      BY <3>2, <3>3, <3>4 DEF ToSet, tail
  <2> QED
    BY <1>1, <2>1, <2>2, RootsGetOne
<1>4. CASE TornName
  <2>1. names = <<>> /\ \E tag : GetOne(tag, <<>>, FALSE)
    BY <1>4 DEF TornName
  <2>2. <<>> \in Seq(AllTags) /\ ToSet(names) = {}
    BY <2>1, EmptySeq DEF ToSet
  <2> QED
    BY <1>1, <2>1, <2>2, RootsGetOne
<1> QED
  BY <1>3, <1>4

LEMMA RootsEndOfNames ==
    ASSUME RootsInv, HistoryShape', EndOfNames PROVE RootsInv'
<1>1. /\ UNCHANGED <<unionSoup, mSSLCAChain>> /\ pc = "names" /\ names = <<>> /\ pc' = "setup"
  BY DEF EndOfNames, ConfigureUnchanged, chainVars
<1>2. /\ history'.quiet = history.quiet /\ history'.complete = TRUE
      /\ history'.loaded = history.loaded /\ history'.storeFailed = history.storeFailed
      /\ history'.overridden = history.overridden /\ history'.disabled = history.disabled
      /\ history'.kept = history.kept
  BY DEF EndOfNames, RootsInv, HistoryShape, Fields
<1>3. ~Loading' /\ ToSet(names) = {}
  BY <1>1 DEF Loading, ToSet
<1>4. history.quiet => \A t \in BuiltInsDue : BuiltInCert(t) \in mSSLCAChain
  BY <1>1, <1>3 DEF RootsInv, QuietOK
<1>5. CompleteOK'
  BY <1>1, <1>2, <1>3, <1>4 DEF CompleteOK, BuiltInsDue
<1>6. SoupKnown' /\ ChainKnown' /\ LoadedOK' /\ QuietOK'
  BY <1>1, <1>2, <1>3 DEF RootsInv, SoupKnown, ChainKnown, LoadedOK, QuietOK
<1> QED
  BY <1>1, <1>5, <1>6 DEF RootsInv

\* The next connection, of this instance or of a new one.
LEMMA RootsNextConnection ==
    ASSUME RootsInv, HistoryShape', CloseStart \/ Delete PROVE RootsInv'
<1>1. unionSoup' = unionSoup /\ pc' = "idle"
  BY DEF CloseStart, Delete, NextConnection, Idle
<1>2. history'.complete = FALSE /\ history'.loaded = {} /\ ChainKnown'
  <2>1. CASE CloseStart
    BY <2>1, ConnectionClosedShape DEF CloseStart, RootsInv, ChainKnown
  <2>2. CASE Delete
    BY <2>2 DEF Delete, NewHistory, ChainKnown, Roots
  <2> QED
    BY <2>1, <2>2
<1>3. ~Loading'
  BY <1>1 DEF Loading
<1> QED
  BY <1>1, <1>2, <1>3 DEF RootsInv, SoupKnown, LoadedOK, QuietOK, CompleteOK

\* README: a tag of the union soup overrides a built-in, and with trust NIL
\* disables it.  Whatever the user does between the calls of SSLConfigure, the
\* chain gets no root of a tag disabled all the time and no built-in that was
\* overridden all the time, beside the roots it had before; and every other
\* built-in is in it when nothing interfered.
THEOREM RootsAlwaysAsDocumented == TrustSpec => []RootsAsDocumented
<1>1. TrustInit => RootsInv
  <2> SUFFICES ASSUME TrustInit PROVE RootsInv
    OBVIOUS
  <2>1. unionSoup \in Seq(Entries) /\ ~Loading
    BY EmptySeq DEF TrustInit, Loading
  <2>2. HistoryShape /\ history.complete = FALSE /\ history.loaded = {}
    BY ShapeInit
  <2>3. ChainKnown
    BY DEF TrustInit, ChainKnown, Roots
  <2> QED
    BY <2>1, <2>2, <2>3 DEF RootsInv, SoupKnown, LoadedOK, QuietOK, CompleteOK, Loading
<1>2. RootsInv /\ [TrustNext]_trustVars => RootsInv'
  <2> SUFFICES ASSUME RootsInv, [TrustNext]_trustVars PROVE RootsInv'
    OBVIOUS
  <2>0. HistoryShape /\ HistoryShape' /\ unionSoup \in Seq(Entries)
    BY ShapeStep DEF RootsInv
  <2>1. CASE (\E e \in Entries : AddEntry(e)) \/ (\E i \in 1 .. Len(unionSoup) : RemoveEntry(i))
    BY <2>0, <2>1, EditedSoup, RootsEdit DEF AddEntry, RemoveEntry
  <2>2. ASSUME NEW h \in Hosts, HostnameOption(h) PROVE RootsInv'
    <3>1. /\ UNCHANGED <<unionSoup, mSSLCAChain, pc, listSize, names>>
          /\ history'.quiet = history.quiet /\ history'.complete = history.complete
          /\ history'.loaded = history.loaded /\ history'.storeFailed = history.storeFailed
          /\ history'.overridden = history.overridden /\ history'.disabled = history.disabled
          /\ history'.kept = history.kept
      BY <2>0, <2>2 DEF HostnameOption, chainVars, listVars, HistoryShape, Fields
    <3> QED
      BY <2>0, <3>1, RootsFrame DEF Loading
  <2>3. CASE CertificateAuthorityOption
    <3>1. /\ UNCHANGED <<unionSoup, pc, listSize, names>> /\ mSSLCAChain \subseteq mSSLCAChain'
          /\ history'.quiet = history.quiet /\ history'.complete = history.complete
          /\ history'.loaded = history.loaded /\ history'.storeFailed = history.storeFailed
          /\ history'.overridden = history.overridden /\ history'.disabled = history.disabled
          /\ history'.kept = history.kept /\ Roots(mSSLCAChain') = Roots(mSSLCAChain)
      BY <2>0, <2>3 DEF CertificateAuthorityOption, listVars, HistoryShape, Fields, Roots
    <3> QED
      BY <2>0, <3>1, RootsFrame DEF Loading
  <2>4. CASE ConfigureStart
    BY <2>0, <2>4, RootsConfigureStart
  <2>5. CASE ListSizeRPC \/ ListRPC
    BY <2>0, <2>5, RootsLists
  <2>6. CASE NextName \/ TornName
    BY <2>0, <2>6, RootsNames
  <2>7. CASE EndOfNames
    BY <2>0, <2>7, RootsEndOfNames
  <2>8. CASE ConfigureEnds
    <3>1. /\ UNCHANGED <<unionSoup, mSSLCAChain>> /\ ~Loading'
          /\ history'.quiet = history.quiet /\ history'.complete = history.complete
          /\ history'.loaded = history.loaded /\ history'.storeFailed = history.storeFailed
          /\ history'.overridden = history.overridden /\ history'.disabled = history.disabled
          /\ history'.kept = history.kept
      BY <2>0, <2>8 DEF ConfigureEnds, Loading, HistoryShape, Fields
    <3> QED
      BY <2>0, <3>1, RootsFrame
  <2>9. CASE CloseStart \/ Delete
    BY <2>0, <2>9, RootsNextConnection
  <2>10. CASE UNCHANGED <<unionSoup, mSSLCAChain, history, pc, listSize, names>>
    BY <2>0, <2>10, RootsFrame DEF Loading
  <2>11. ASSUME NEW mode \in Modes, VerifyModeOption(mode) PROVE RootsInv'
    BY <2>10, <2>11 DEF VerifyModeOption, chainVars, listVars
  <2>12. CASE UNCHANGED trustVars
    BY <2>10, <2>12 DEF trustVars, chainVars, listVars
  <2> QED
    BY <2>1, <2>2, <2>3, <2>4, <2>5, <2>6, <2>7, <2>8, <2>9, <2>11, <2>12 DEF TrustNext, Load
<1>3. RootsInv => RootsAsDocumented
  BY DEF RootsInv, ChainKnown, LoadedOK, CompleteOK, RootsAsDocumented, BuiltInsDue, BuiltInCert
<1> QED
  BY <1>1, <1>2, <1>3, PTL DEF TrustSpec

(***************************************************************************)
(* SSLConfigure comes to an end.  Its loop over the names makes a call     *)
(* again with a larger buffer when a certificate does not fit, and the     *)
(* user may have replaced that certificate by a larger one meanwhile.      *)
(***************************************************************************)
\* The first names of a list are a list.
LEMMA FirstPart ==
    ASSUME NEW list \in Seq(AllTags), NEW k \in 0 .. Len(list)
    PROVE  SubSeq(list, 1, k) \in Seq(AllTags)
<1>1. Len(list) \in Nat /\ \A i \in 1 .. Len(list) : list[i] \in AllTags
  BY LenProperties, ElementOfSeq
<1>2. k \in Int /\ 1 \in Int /\ \A i \in 1 .. k : list[i] \in AllTags
  BY <1>1
<1> QED
  BY <1>2, SubSeqProperties

\* The part of the list a buffer takes is a part of the list.
LEMMA FittingPart ==
    ASSUME NEW list \in Seq(AllTags), NEW size \in Nat
    PROVE  /\ Fitting(list, size) \in 0 .. Len(list)
           /\ SubSeq(list, 1, Fitting(list, size)) \in Seq(AllTags)
<1> DEFINE B(k) == Bytes(SubSeq(list, 1, k))
           Takes(k) == B(k) <= size /\ \A more \in k + 1 .. Len(list) : B(more) > size
           T == {n \in 0 .. Len(list) : B(Len(list) - n) <= size}
<1>1. Len(list) \in Nat /\ \A i \in 1 .. Len(list) : list[i] \in AllTags
  BY LenProperties, ElementOfSeq
<1>2. ASSUME NEW k \in 0 .. Len(list) PROVE SubSeq(list, 1, k) \in Seq(AllTags)
  BY FirstPart
<1>3. \A k \in 0 .. Len(list) : B(k) \in Nat
  BY <1>2, BytesType
<1>4. B(0) = 0
  <2>1. SubSeq(list, 1, 0) = << >>
    BY <1>1, SubSeqEmpty
  <2>2. Bytes(<< >>) = 0
    <3>1. {{k} \X (1 .. TagSize[(<< >>)[k]]) : k \in 1 .. 0} = {}
      OBVIOUS
    <3>2. UNION {} = {} /\ Len(<< >>) = 0
      OBVIOUS
    <3> QED
      BY <3>1, <3>2, FS_EmptySet DEF Bytes
  <2> QED
    BY <2>1, <2>2
<1>5. Fitting(list, size) = CHOOSE k \in 0 .. Len(list) : Takes(k)
  BY DEF Fitting
<1> HIDE DEF B
<1>6. T \subseteq Nat /\ Len(list) \in T
  BY <1>1, <1>4
<1>7. PICK n \in T : \A y \in T : ~(y < n)
  <2> HIDE DEF T
  <2> QED
    BY <1>6, FirstPosition
<1>8. Len(list) - n \in 0 .. Len(list) /\ Takes(Len(list) - n)
  <2>1. n \in 0 .. Len(list) /\ B(Len(list) - n) <= size
    BY <1>7
  <2>2. ASSUME NEW more \in (Len(list) - n) + 1 .. Len(list) PROVE B(more) > size
    <3>1. Len(list) - more \in 0 .. Len(list) /\ Len(list) - more < n
          /\ Len(list) - (Len(list) - more) = more /\ more \in 0 .. Len(list)
      BY <1>1, <2>1
    <3>2. Len(list) - more \notin T
      BY <1>7, <3>1
    <3>3. ~(B(more) <= size)
      BY <3>1, <3>2
    <3> QED
      BY <1>3, <3>1, <3>3
  <2> QED
    BY <1>1, <2>1, <2>2
<1>9. Fitting(list, size) \in 0 .. Len(list)
  <2> HIDE DEF Takes
  <2> QED
    BY <1>5, <1>8, Zenon
<1> QED
  BY <1>2, <1>9

\* The certificates that may be found have sizes of the soups.
LEMMA FoundSizes ==
    ASSUME unionSoup \in Seq(Entries), NEW tag, NEW storeError \in BOOLEAN,
           NEW e \in GetRootCertificate(tag, storeError)
    PROVE  e.len \in CertSizes \cup {1}
<1>1. e \in FoundEntry(tag, storeError)
  BY DEF GetRootCertificate
<1>2. ASSUME NEW u \in EntryFor(unionSoup, tag) PROVE u.len \in CertSizes
  <2>1. PICK k \in 1 .. Len(unionSoup) : u = unionSoup[k]
    BY <1>2 DEF EntryFor
  <2>2. u \in Entries
    BY <2>1, ElementOfSeq
  <2> QED
    BY <2>2 DEF Entries
<1> DEFINE users == IF storeError THEN {} ELSE EntryFor(unionSoup, tag)
<1>3. CASE users # {}
  <2>1. PICK u \in EntryFor(unionSoup, tag) :
           e = [cert |-> [tag |-> tag, from |-> "user"], trust |-> u.trust, len |-> u.len]
    BY <1>1, <1>3 DEF FoundEntry
  <2> QED
    BY <1>2, <2>1
<1>4. CASE users = {}
  <2>1. \E t : e = [cert |-> [tag |-> t, from |-> "builtin"], trust |-> TRUE, len |-> 1]
    BY <1>1, <1>4 DEF FoundEntry
  <2> QED
    BY <2>1
<1> QED
  BY <1>3, <1>4

\* What is left to do is a list of names, and the buffers have sizes.
LoadInv ==
    /\ unionSoup \in Seq(Entries) /\ names \in Seq(AllTags)
    /\ torn \in BOOLEAN /\ certPtrSize \in Nat /\ listSize \in Nat

\* How many parts of SSLConfigure are left.
Phase(p) == CASE p = "size"  -> 4
              [] p = "list"  -> 3
              [] p = "names" -> 2
              [] p = "setup" -> 1
              [] OTHER       -> 0

\* A turn of the loop takes a name off the list, or makes the buffer larger.
TurnAdvances ==
    \/ Len(names') < Len(names)
    \/ names' = names /\ torn /\ ~torn'
    \/ /\ UNCHANGED <<names, torn>>
       /\ certPtrSize' > certPtrSize /\ certPtrSize' \in CertSizes \cup {1}

\* What a step does while SSLConfigure runs, which is an edit of the user or a
\* step of SSLConfigure.
LoadAdvances ==
    pc # "idle" =>
        \/ edits' = edits + 1 /\ UNCHANGED <<pc, listVars>>
        \/ Phase(pc') < Phase(pc)
        \/ pc' = pc /\ TurnAdvances

\* A turn of the loop, for a name that is taken off the list or was cut off.
LEMMA TurnOfLoop ==
    ASSUME LoadInv, NEW tag, NEW rest, NEW storeError \in BOOLEAN, GetOne(tag, rest, storeError)
    PROVE  /\ certPtrSize' \in Nat
           /\ \/ /\ UNCHANGED <<names, torn>>
                 /\ certPtrSize' > certPtrSize /\ certPtrSize' \in CertSizes \cup {1}
              \/ names' = rest /\ torn' = (torn /\ names # <<>>)
<1> DEFINE found == GetRootCertificate(tag, storeError)
<1>1. CASE TooLarge(found)
  <2>1. PICK e \in found : e.len > certPtrSize /\ certPtrSize' = e.len
    BY <1>1 DEF TooLarge
  <2>2. e.len \in CertSizes \cup {1} /\ CertSizes \subseteq Nat
    BY FoundSizes, TrustAssumption DEF LoadInv
  <2>3. certPtrSize' \in Nat /\ certPtrSize' > certPtrSize /\ certPtrSize' \in CertSizes \cup {1}
    <3>1. \A a \in CertSizes \cup {1} : a \in Nat
      BY <2>2
    <3>2. e.len \in Nat
      BY <2>2, <3>1, Zenon
    <3> QED
      BY <2>1, <2>2, <3>2, Zenon
  <2>4. UNCHANGED <<names, torn>>
    BY <1>1 DEF TooLarge
  <2> QED
    BY <2>3, <2>4
<1>2. ASSUME NEW parsed, Parsed(found, parsed, rest)
      PROVE  certPtrSize' \in Nat /\ names' = rest /\ torn' = (torn /\ names # <<>>)
  BY <1>2 DEF Parsed, LoadInv
<1> QED
  BY <1>1, <1>2 DEF GetOne

\* The names of a list are taken off one by one.
LEMMA LoopAdvances ==
    ASSUME LoadInv, NextName \/ TornName
    PROVE  /\ names' \in Seq(AllTags) /\ torn' \in BOOLEAN /\ certPtrSize' \in Nat
           /\ TurnAdvances
<1>1. CASE NextName
  <2>1. PICK storeError \in BOOLEAN : GetOne(Head(names), Tail(names), storeError)
    BY <1>1 DEF NextName
  <2>2. /\ Tail(names) \in Seq(AllTags) /\ Len(Tail(names)) = Len(names) - 1
        /\ Len(names) \in Nat
    BY <1>1, HeadTailProperties, LenProperties DEF NextName, LoadInv
  <2>3. Len(Tail(names)) < Len(names)
    BY <2>2
  <2>4. torn \in BOOLEAN /\ (torn /\ names # <<>>) \in BOOLEAN
    BY DEF LoadInv
  <2>5. /\ certPtrSize' \in Nat
        /\ \/ /\ UNCHANGED <<names, torn>>
              /\ certPtrSize' > certPtrSize /\ certPtrSize' \in CertSizes \cup {1}
           \/ names' = Tail(names) /\ torn' = (torn /\ names # <<>>)
    BY <2>1, TurnOfLoop
  <2>6. names' \in Seq(AllTags) /\ torn' \in BOOLEAN
    <3>1. CASE UNCHANGED <<names, torn>>
      BY <3>1 DEF LoadInv
    <3>2. CASE names' = Tail(names) /\ torn' = (torn /\ names # <<>>)
      BY <2>2, <2>4, <3>2
    <3> QED
      BY <2>5, <3>1, <3>2
  <2>7. TurnAdvances
    BY <2>3, <2>5, Zenon DEF TurnAdvances
  <2> QED
    BY <2>5, <2>6, <2>7
<1>2. CASE TornName
  <2>1. names = <<>> /\ torn /\ \E tag : GetOne(tag, <<>>, FALSE)
    BY <1>2 DEF TornName
  <2> QED
    BY <2>1, TurnOfLoop DEF LoadInv, TurnAdvances
<1> QED
  BY <1>1, <1>2

\* What is left is well typed throughout.
LEMMA LoadInvAlways == TrustSpec => []LoadInv
<1>1. TrustInit => LoadInv
  <2> SUFFICES ASSUME TrustInit PROVE LoadInv
    OBVIOUS
  <2>1. torn \in BOOLEAN
    BY DEF TrustInit
  <2>2. unionSoup = <<>> /\ names = <<>> /\ certPtrSize = 0 /\ listSize = 0
    BY DEF TrustInit
  <2> QED
    BY <2>1, <2>2, EmptySeq DEF LoadInv
<1>2. LoadInv /\ [TrustNext]_trustVars => LoadInv'
  <2> SUFFICES ASSUME LoadInv, [TrustNext]_trustVars PROVE LoadInv'
    OBVIOUS
  <2>1. CASE UNCHANGED <<unionSoup, listVars>>
    BY <2>1 DEF LoadInv, listVars
  <2>2. CASE (\E e \in Entries : AddEntry(e)) \/ (\E i \in 1 .. Len(unionSoup) : RemoveEntry(i))
    BY <2>2, EditedSoup DEF AddEntry, RemoveEntry, Edit, LoadInv, listVars
  <2>3. CASE ListFails /\ UNCHANGED unionSoup
    BY <2>3, EmptySeq DEF ListFails, ListDisposed, LoadInv
  <2>4. CASE ListSizeRPC
    <3>1. Bytes(RootNames(unionSoup)) \in Nat
      BY RootNamesList, BytesType DEF LoadInv
    <3>2. CASE /\ listSize' \in WrongSizes
               /\ UNCHANGED <<names, torn, certPtrSize, unionSoup>>
      BY <3>2, TrustAssumption DEF LoadInv
    <3> QED
      BY <2>3, <2>4, <3>1, <3>2 DEF ListSizeRPC, ConfigureUnchanged, LoadInv
  <2>5. CASE ListRPC
    <3> DEFINE all == RootNames(unionSoup)
               k == Fitting(all, listSize)
    <3>1. SubSeq(all, 1, k) \in Seq(AllTags)
      BY RootNamesList, FittingPart DEF LoadInv
    <3>2. CASE /\ names' = SubSeq(all, 1, k)
               /\ torn' = (k < Len(all) /\ Bytes(SubSeq(all, 1, k)) < listSize)
               /\ certPtrSize' = 0 /\ listSize' = listSize /\ unionSoup' = unionSoup
      BY <3>1, <3>2 DEF LoadInv
    <3>3. CASE /\ \E n \in 0 .. k : names' = SubSeq(all, 1, n)
               /\ torn' = TRUE /\ certPtrSize' = 0
               /\ UNCHANGED <<listSize, unionSoup>>
      <4>1. PICK n \in 0 .. k : names' = SubSeq(all, 1, n)
        BY <3>3
      <4>2. k \in 0 .. Len(all) /\ all \in Seq(AllTags) /\ Len(all) \in Nat
        BY RootNamesList, FittingPart, LenProperties DEF LoadInv
      <4>3. n \in 0 .. Len(all)
        BY <4>2
      <4> HIDE DEF all
      <4>4. SubSeq(all, 1, n) \in Seq(AllTags)
        BY <4>2, <4>3, FirstPart
      <4>5. torn' \in BOOLEAN
        BY <3>3
      <4> QED
        BY <3>3, <4>1, <4>4, <4>5 DEF LoadInv
    <3> QED
      BY <2>3, <2>5, <3>2, <3>3 DEF ListRPC, ConfigureUnchanged
  <2>6. CASE NextName \/ TornName
    BY <2>6, LoopAdvances DEF NextName, TornName, ConfigureUnchanged, LoadInv
  <2>7. CASE EndOfNames
    BY <2>7, EmptySeq DEF EndOfNames, ListDisposed, ConfigureUnchanged, LoadInv
  <2>8. ASSUME NEW h \in Hosts, HostnameOption(h) PROVE LoadInv'
    BY <2>1, <2>8 DEF HostnameOption
  <2>9. ASSUME NEW mode \in Modes, VerifyModeOption(mode) PROVE LoadInv'
    BY <2>1, <2>9 DEF VerifyModeOption
  <2>10. CASE CertificateAuthorityOption \/ ConfigureStart \/ ConfigureEnds
    BY <2>1, <2>10 DEF CertificateAuthorityOption, ConfigureStart, ConfigureEnds,
                       ConfigureUnchanged
  <2>11. CASE CloseStart \/ Delete
    BY <2>1, <2>11 DEF CloseStart, Delete, NextConnection
  <2>12. CASE UNCHANGED trustVars
    BY <2>1, <2>12 DEF trustVars
  <2> QED
    BY <2>2, <2>4, <2>5, <2>6, <2>7, <2>8, <2>9, <2>10, <2>11, <2>12 DEF TrustNext, Load
<1> QED
  BY <1>1, <1>2, PTL DEF TrustSpec

\* Every step of SSLConfigure brings it nearer to its end, whatever soups the
\* user edits between two RPCs: it goes on to the next part, takes a name off
\* the list, or makes the certificate buffer larger, up to the largest
\* certificate.  With the Newt task answering, LoadEnds follows: no sequence of
\* edits keeps the call for a certificate that grew in a loop of its own.
THEOREM LoadAlwaysAdvances == TrustSpec => [][LoadAdvances]_trustVars
<1>1. LoadInv /\ [TrustNext]_trustVars => [LoadAdvances]_trustVars
  <2> SUFFICES ASSUME LoadInv, TrustNext, pc # "idle" PROVE LoadAdvances
    BY DEF LoadAdvances
  <2>1. CASE (\E e \in Entries : AddEntry(e)) \/ (\E i \in 1 .. Len(unionSoup) : RemoveEntry(i))
    BY <2>1 DEF AddEntry, RemoveEntry, Edit, LoadAdvances
  <2>2. CASE ListSizeRPC \/ ListRPC \/ EndOfNames \/ ConfigureEnds
    BY <2>2 DEF ListSizeRPC, ListRPC, ListFails, ListMistaken, EndOfNames, ConfigureEnds, LoadAdvances, Phase
  <2>3. CASE NextName \/ TornName
    BY <2>3, LoopAdvances DEF NextName, TornName, LoadAdvances
  <2>4. ~(\/ \E h \in Hosts : HostnameOption(h)
          \/ \E mode \in Modes : VerifyModeOption(mode)
          \/ CertificateAuthorityOption \/ ConfigureStart \/ CloseStart \/ Delete)
    BY DEF HostnameOption, VerifyModeOption, CertificateAuthorityOption, ConfigureStart,
           CloseStart, Delete, NextConnection, Idle
  <2> QED
    BY <2>1, <2>2, <2>3, <2>4 DEF TrustNext, Load
<1> QED
  BY <1>1, LoadInvAlways, PTL DEF TrustSpec
=============================================================================
