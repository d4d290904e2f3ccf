---------------------------- MODULE HandlerProxy ----------------------------
(***************************************************************************)
(* TAEventHandlerProxy: how events for the Newt task reach C++ objects     *)
(* whose compiler lays objects out differently from the ROM.  The proxy    *)
(* allocates the five words of a TAEventHandler and, behind them, a        *)
(* pointer to itself; it lets the ROM construct, register and destroy the  *)
(* object there, and puts a virtual table of its own into the word where   *)
(* the ROM looks for one.  NewtonOS 2.0 has that word at the end of the    *)
(* object, NewtonOS 2.1 at the beginning.                                  *)
(*                                                                         *)
(* PMbedTLS::New makes one proxy per service, PMbedTLS::Delete deletes     *)
(* them.  The constructor, Init and the destructor of TAEventHandler, and  *)
(* the chain of handlers, are the ROM's (external).                        *)
(***************************************************************************)
EXTENDS Naturals, FiniteSets

CONSTANTS
    Handlers,      \* the services' handlers; each is its event's ID too
    GestaltFails   \* may the Gestalt call fail

ASSUME ProxyAssumption == GestaltFails \in BOOLEAN

OSes == {"2.0", "2.1"}

\* Where each field of the object is.
Fields(version) ==
    IF version = "2.0"
    THEN [next |-> 1, class |-> 2, id |-> 3, idler |-> 4, vtable |-> 5]
    ELSE [vtable |-> 1, next |-> 2, class |-> 3, id |-> 4, idler |-> 5]

VARIABLES
    os,             \* the version of the ROM
    proxies,        \* proxies that exist
    layout,         \* what the constructor of a proxy took the version for
    words,          \* the words of a handler's object
    mEventHandler,  \* proxies whose pointer to the object is not NULL
    chain,          \* objects in the ROM's chain of handlers
    frees,          \* how often an object was destroyed and freed
    delivered,      \* history: <<event, handler called>>
    misread         \* history: the Gestalt call failed

proxyVars == <<os, proxies, layout, words, mEventHandler, chain, frees, delivered, misread>>

Zeros == [i \in 1 .. 5 |-> "0"]

ProxyInit ==
    /\ os \in OSes
    /\ proxies = {} /\ mEventHandler = {} /\ chain = {}
    /\ layout = [h \in Handlers |-> "2.0"]
    /\ words = [h \in Handlers |-> Zeros]
    /\ frees = [h \in Handlers |-> 0]
    /\ delivered = {} /\ misread = FALSE

\* The object the ROM constructs: its own virtual table, no class and no ID.
Constructed == [Zeros EXCEPT ![Fields(os).vtable] = "ROM"]

\* The proxy's table in its place, then Init with class and ID, by the ROM.
Prepared(h, version) ==
    [Constructed EXCEPT ![Fields(version).vtable] = "proxy",
                        ![Fields(os).class] = "mTLS",
                        ![Fields(os).id] = h]

\* An error of Gestalt is ignored: the version is then what the stack held.
NewProxies ==
    /\ proxies = {}
    /\ \E version \in OSes :
          /\ version = os \/ GestaltFails
          /\ layout' = [h \in Handlers |-> version]
          /\ words' = [h \in Handlers |-> Prepared(h, version)]
          /\ misread' = (misread \/ version # os)
    /\ proxies' = Handlers
    /\ mEventHandler' = Handlers
    /\ chain' = Handlers
    /\ frees' = [h \in Handlers |-> 0]
    /\ UNCHANGED <<os, delivered>>

\* Accessors of the proxy, through the pointers its constructor has set.
GetEventClass(h) == words[h][Fields(layout[h]).class]
GetEventID(h) == words[h][Fields(layout[h]).id]

\* The ROM gives an event to the handlers of its class and ID, through the
\* virtual table; the functions there go through the pointer to the proxy.
AEHandlerProcOfProxy(event) ==
    \E h \in chain :
        /\ words[h][Fields(os).class] = "mTLS"
        /\ words[h][Fields(os).id] = event
        /\ words[h][Fields(os).vtable] = "proxy"
        /\ delivered' = delivered \cup {<<event, h>>}
        /\ UNCHANGED <<os, proxies, layout, words, mEventHandler, chain, frees, misread>>

Freed(hs) == [h \in Handlers |-> IF h \in hs THEN frees[h] + 1 ELSE frees[h]]

\* Mutant: the proxy still has its pointer.
AEDestructorKeepsPointer(h) ==
    /\ os = "2.0" /\ ~misread
    /\ h \in chain
    /\ chain' = chain \ {h}
    /\ frees' = Freed({h})
    /\ UNCHANGED <<os, proxies, layout, words, mEventHandler, delivered, misread>>

\* NewtonOS 2.0 destroys the object itself, through the table of the proxy.
\* (That of 2.1 has the ROM's destructor, and 2.1 does not.)
AEDestructor(h) ==
    /\ os = "2.0" /\ ~misread
    /\ h \in chain
    /\ chain' = chain \ {h}
    /\ frees' = Freed({h})
    /\ mEventHandler' = mEventHandler \ {h}
    /\ UNCHANGED <<os, proxies, layout, words, delivered, misread>>

\* PMbedTLS::Delete deletes the proxies, which destroy and free what they
\* still point to; the ROM's destructor takes it out of the chain.
DeleteProxies ==
    /\ proxies # {}
    /\ proxies' = {}
    /\ chain' = chain \ mEventHandler
    /\ frees' = Freed(mEventHandler)
    /\ mEventHandler' = {}
    /\ UNCHANGED <<os, layout, words, delivered, misread>>

ProxyNext ==
    \/ NewProxies \/ DeleteProxies
    \/ \E event \in Handlers : AEHandlerProcOfProxy(event)
    \/ \E h \in Handlers : AEDestructor(h)

ProxySpec == ProxyInit /\ [][ProxyNext]_proxyVars

-----------------------------------------------------------------------------
\* On both systems, as long as Gestalt told them apart: the ROM finds in every
\* object of its chain the proxy's table and the class and ID that the proxy
\* itself reports, no object of a deleted proxy is in the chain, and each
\* object is destroyed once, whether the ROM or the proxy is first.
HandlersSound ==
    /\ ~misread =>
          \A h \in chain :
              /\ words[h][Fields(os).vtable] = "proxy"
              /\ GetEventClass(h) = "mTLS" /\ GetEventID(h) = h
    /\ chain \subseteq proxies \cap mEventHandler
    /\ \A h \in Handlers : frees[h] <= (IF h \in mEventHandler THEN 0 ELSE 1)
    /\ \A d \in delivered : d[1] = d[2]
=============================================================================
