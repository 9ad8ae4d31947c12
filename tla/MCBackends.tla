----------------------------- MODULE MCBackends -----------------------------
(***************************************************************************)
(* The platform backends, for TLC.  A build of the library has one of      *)
(* them, so a behaviour chooses a build, a filter and how much may happen, *)
(* and only the component of that build takes steps.  The components share *)
(* the variables whose names they share; a variable that the build does    *)
(* not have is {} throughout.                                              *)
(***************************************************************************)
EXTENDS Integers, Sequences, TLC

CONSTANTS
    Threads, NoThread, Knotes, Nil, Kqueues, Pids, None,
    Adds,           \* the flag sets passed along with EV_ADD
    MaxRoom, MaxCount, MaxPackets, MaxCalls, MaxEvents, MaxOpens, MaxFaults

VARIABLES
    build,      \* the component that runs
    kind, kn, cur, iocp, data, hup, rec, pc, got, forever, mtx, room, events,
    stamped, ncalls, nevents, kq, ud, assoc, efd, src, evbuf, max, entry,
    epoch, hits, short, fds, ready, always, interval, wake, rfds, to, only,
    use, seen, snap, changes, waits, missed, dangling, count, joining, thread,
    todo, failed, raising, child, chld, copyout, left, opens, calls, silent,
    reg, obj, open, faults, trig, told, owed, late

Windows == INSTANCE CompletionPort
Solaris == INSTANCE EventPort WITH Udatas <- 1..3
Posix == INSTANCE SelectWait
\* The same with no flags beside EV_ADD, for longer sequences of changes.
PosixPlain == INSTANCE SelectWait WITH Adds <- {{}}
Wait == INSTANCE WaitThread WITH MaxCalls <- 2
\* EV_ADD of the Linux filters looks at EV_DISABLE itself.
Linux == INSTANCE KnoteFd WITH Adds <- Adds \cup {{"EV_DISABLE"}}

\* The variables that a build does not have.
NoWindows ==
    <<ud, assoc, efd, src, evbuf, max, entry, epoch, hits, short, fds, ready,
      always, interval, wake, rfds, to, only, use, seen, snap, changes, waits,
      missed, dangling, count, joining, thread, todo, failed, raising, child,
      chld, copyout, left, opens, calls, silent, reg, obj, open, faults, trig,
      told, owed, late>>
NoSolaris ==
    <<cur, iocp, data, hup, rec, got, forever, mtx, events, stamped, ncalls,
      kq, fds, ready, always, interval, wake, rfds, to, only, use, seen, snap,
      changes, waits, missed, dangling, count, joining, thread, todo, failed,
      raising, child, chld, copyout, left, opens, calls, silent, reg, obj,
      open, faults, trig, told, owed, late>>
NoPosix ==
    <<cur, iocp, data, hup, rec, got, forever, mtx, stamped, ncalls, nevents,
      kq, ud, assoc, evbuf, max, entry, epoch, count, joining, thread, todo,
      failed, raising, child, chld, copyout, left, opens, calls, silent, reg,
      obj, open, faults, trig, told, owed, late>>
NoWait ==
    <<kind, iocp, data, hup, rec, pc, got, forever, mtx, room, events,
      stamped, ncalls, nevents, ud, assoc, src, evbuf, max, entry, epoch,
      hits, fds, always, interval, wake, rfds, to, only, use, seen, snap,
      changes, waits, missed, dangling, reg, obj, open, faults, trig, told,
      owed, late>>
NoLinux ==
    <<cur, iocp, data, hup, rec, got, forever, mtx, stamped, ncalls, nevents,
      kq, ud, assoc, efd, entry, epoch, hits, fds, ready, always, interval,
      wake, rfds, to, only, use, seen, snap, missed, dangling, count, joining,
      thread, todo, raising, child, chld, copyout, left, opens, calls, silent>>

vars ==
    <<build, kind, kn, cur, iocp, data, hup, rec, pc, got, forever, mtx, room,
      events, stamped, ncalls, nevents, kq, ud, assoc, efd, src, evbuf, max,
      entry, epoch, hits, short, fds, ready, always, interval, wake, rfds, to,
      only, use, seen, snap, changes, waits, missed, dangling, count, joining,
      thread, todo, failed, raising, child, chld, copyout, left, opens, calls,
      silent, reg, obj, open, faults, trig, told, owed, late>>

\* What may happen in a behaviour: a kind, calls or changes, waits, events.
WindowsScopes ==
    {<<"user", 4, 2>>, <<"timer", 4, 2>>, <<"proc", 4, 2>>, <<"signal", 4, 2>>,
     <<"vnode", 3, 1>>, <<"file", 3, 2>>, <<"pipe", 3, 2>>, <<"socket", 3, 1>>,
     <<"socket", 2, 3>>, <<"wfile", 4, 2>>, <<"wsocket", 3, 3>>}
SolarisScopes ==
    {<<"user", 4, 0>>, <<"timer", 4, 2>>, <<"file", 4, 1>>, <<"proc", 3, 2>>,
     <<"read", 3, 1>>, <<"read", 2, 2>>, <<"rw", 3, 2>>}
PosixScopes ==
    {<<<<"user", "none">>, 3, 2, 0>>, <<<<"user", "user">>, 3, 1, 0>>,
     <<<<"timer", "none">>, 4, 1, 2>>, <<<<"vnode", "file">>, 2, 1, 1>>,
     <<<<"read", "write">>, 2, 1, 1>>, <<<<"read", "none">>, 1, 2, 1>>}
PosixPlainScopes ==
    {<<<<"user", "timer">>, 3, 1, 1>>, <<<<"timer", "timer">>, 4, 1, 2>>,
     <<<<"read", "none">>, 2, 2, 1>>, <<<<"write", "none">>, 3, 2, 0>>}
LinuxScopes ==
    {<<"user", 3, 2, 0>>, <<"timer", 3, 1, 2>>, <<"timer", 2, 2, 2>>,
     <<"proc", 2, 2, 1>>, <<"vnode", 2, 1, 1>>}

Init ==
    \/ /\ build = "windows"
       /\ \E s \in WindowsScopes : Windows!Init(s[1], s[2], s[3])
       /\ ud = {} /\ assoc = {} /\ efd = {} /\ src = {} /\ evbuf = {}
       /\ max = {} /\ entry = {} /\ epoch = {} /\ hits = {} /\ short = {}
       /\ fds = {} /\ ready = {} /\ always = {} /\ interval = {}
       /\ wake = {} /\ rfds = {} /\ to = {} /\ only = {} /\ use = {}
       /\ seen = {} /\ snap = {} /\ changes = {} /\ waits = {}
       /\ missed = {} /\ dangling = {} /\ count = {} /\ joining = {}
       /\ thread = {} /\ todo = {} /\ failed = {} /\ raising = {}
       /\ child = {} /\ chld = {} /\ copyout = {} /\ left = {} /\ opens = {}
       /\ calls = {} /\ silent = {} /\ reg = {} /\ obj = {} /\ open = {}
       /\ faults = {} /\ trig = {} /\ told = {} /\ owed = {} /\ late = {}
    \/ /\ build = "solaris"
       /\ \E s \in SolarisScopes : Solaris!Init(s[1], s[2], s[3])
       /\ cur = {} /\ iocp = {} /\ data = {} /\ hup = {} /\ rec = {}
       /\ got = {} /\ forever = {} /\ mtx = {} /\ events = {}
       /\ stamped = {} /\ ncalls = {} /\ kq = {} /\ fds = {} /\ ready = {}
       /\ always = {} /\ interval = {} /\ wake = {} /\ rfds = {} /\ to = {}
       /\ only = {} /\ use = {} /\ seen = {} /\ snap = {} /\ changes = {}
       /\ waits = {} /\ missed = {} /\ dangling = {} /\ count = {}
       /\ joining = {} /\ thread = {} /\ todo = {} /\ failed = {}
       /\ raising = {} /\ child = {} /\ chld = {} /\ copyout = {}
       /\ left = {} /\ opens = {} /\ calls = {} /\ silent = {} /\ reg = {}
       /\ obj = {} /\ open = {} /\ faults = {} /\ trig = {} /\ told = {}
       /\ owed = {} /\ late = {}
    \/ /\ \/ build = "posix" /\ \E s \in PosixScopes : Posix!Init(s[1], s[2], s[3], s[4])
          \/ /\ build = "posix_plain"
             /\ \E s \in PosixPlainScopes : PosixPlain!Init(s[1], s[2], s[3], s[4])
       /\ cur = {} /\ iocp = {} /\ data = {} /\ hup = {} /\ rec = {}
       /\ got = {} /\ forever = {} /\ mtx = {} /\ stamped = {}
       /\ ncalls = {} /\ nevents = {} /\ kq = {} /\ ud = {} /\ assoc = {}
       /\ evbuf = {} /\ max = {} /\ entry = {} /\ epoch = {} /\ count = {}
       /\ joining = {} /\ thread = {} /\ todo = {} /\ failed = {}
       /\ raising = {} /\ child = {} /\ chld = {} /\ copyout = {}
       /\ left = {} /\ opens = {} /\ calls = {} /\ silent = {} /\ reg = {}
       /\ obj = {} /\ open = {} /\ faults = {} /\ trig = {} /\ told = {}
       /\ owed = {} /\ late = {}
    \/ /\ build = "wait"
       /\ Wait!Init
       /\ kind = {} /\ iocp = {} /\ data = {} /\ hup = {} /\ rec = {}
       /\ pc = {} /\ got = {} /\ forever = {} /\ mtx = {} /\ room = {}
       /\ events = {} /\ stamped = {} /\ ncalls = {} /\ nevents = {}
       /\ ud = {} /\ assoc = {} /\ src = {} /\ evbuf = {} /\ max = {}
       /\ entry = {} /\ epoch = {} /\ hits = {} /\ fds = {} /\ always = {}
       /\ interval = {} /\ wake = {} /\ rfds = {} /\ to = {} /\ only = {}
       /\ use = {} /\ seen = {} /\ snap = {} /\ changes = {} /\ waits = {}
       /\ missed = {} /\ dangling = {} /\ reg = {} /\ obj = {} /\ open = {}
       /\ faults = {} /\ trig = {} /\ told = {} /\ owed = {} /\ late = {}
    \/ /\ build = "linux"
       /\ \E s \in LinuxScopes : Linux!Init(s[1], s[2], s[3], s[4])
       /\ cur = {} /\ iocp = {} /\ data = {} /\ hup = {} /\ rec = {}
       /\ got = {} /\ forever = {} /\ mtx = {} /\ stamped = {}
       /\ ncalls = {} /\ nevents = {} /\ kq = {} /\ ud = {} /\ assoc = {}
       /\ efd = {} /\ entry = {} /\ epoch = {} /\ hits = {} /\ fds = {}
       /\ ready = {} /\ always = {} /\ interval = {} /\ wake = {}
       /\ rfds = {} /\ to = {} /\ only = {} /\ use = {} /\ seen = {}
       /\ snap = {} /\ missed = {} /\ dangling = {} /\ count = {}
       /\ joining = {} /\ thread = {} /\ todo = {} /\ raising = {}
       /\ child = {} /\ chld = {} /\ copyout = {} /\ left = {} /\ opens = {}
       /\ calls = {} /\ silent = {}

Next ==
    /\ UNCHANGED build
    /\ \/ build = "windows" /\ Windows!Next /\ UNCHANGED NoWindows
       \/ build = "solaris" /\ Solaris!Next /\ UNCHANGED NoSolaris
       \/ build = "posix" /\ Posix!Next /\ UNCHANGED NoPosix
       \/ build = "posix_plain" /\ PosixPlain!Next /\ UNCHANGED NoPosix
       \/ build = "wait" /\ Wait!Next /\ UNCHANGED NoWait
       \/ build = "linux" /\ Linux!Next /\ UNCHANGED NoLinux

Spec == Init /\ [][Next]_vars

PosixBuilds == {"posix", "posix_plain"}

Symmetry == Permutations(Threads) \cup Permutations(Knotes)

-----------------------------------------------------------------------------
(***************************************************************************)
(* Properties.  Each says one thing of every build in which it can go      *)
(* wrong; the component before the "!" states it in terms of its code.     *)
(***************************************************************************)

\* All variables of the component that runs have their types.
TypeOK ==
    CASE build = "windows" -> Windows!TypeOK
      [] build = "solaris" -> Solaris!TypeOK
      [] build \in PosixBuilds -> Posix!TypeOK
      [] build = "wait" -> Wait!TypeOK
      [] build = "linux" -> Linux!TypeOK

\* Nothing is used after it was freed: what completion packets, pending reads and
\* waits refer to (windows, kn_ref), what the port and the threads hold (solaris,
\* port_udata_defer_free), the knote the walk of kf_ready goes on from (posix),
\* what the wait thread and the copyouts refer to, the knote a udata leads to
\* (linux, KN_UDATA_DEFER_FREE).
ReferencesLive ==
    CASE build = "windows" -> Windows!RefsCoverOwners
      [] build = "solaris" -> Solaris!PortUdataLive
      [] build \in PosixBuilds -> Posix!WalkSafe
      [] build = "wait" -> Wait!ReferencesLive
      [] build = "linux" -> Linux!UdataLeadsToKnote

\* Nothing is kept or given up too early by its owner: a deleted knote is freed with
\* its last packet and a closed kqueue with its last caller (windows), a retired
\* udata is kept only for a caller that was inside (solaris), every descriptor
\* the filters opened belongs to a knote (linux).
OwnershipExact ==
    CASE build = "windows" -> Windows!RefsExact /\ Windows!FreedWhenLeft
      [] build = "solaris" -> Solaris!StaleHasReader
      [] build = "linux" -> Linux!DescriptorsOwned
      [] OTHER -> TRUE

\* What the library has told the operating system agrees with the knotes: a
\* level-triggered knote stays associated or is about to be (solaris), kq_fds
\* and kq_always_ready hold and count the armed knotes (posix), the wait
\* thread runs while a kqueue may hold knotes, a knote is in the epoll set
\* exactly if it is enabled (linux).
RegistrationExact ==
    CASE build = "solaris" -> Solaris!LevelStaysArmed
      [] build \in PosixBuilds -> Posix!AlwaysReadyExact /\ Posix!MasterSetExact
      [] build = "wait" -> Wait!ThreadServes
      [] build = "linux" -> Linux!EnabledIsRegistered
      [] OTHER -> TRUE

\* No wakeup is lost by coalescing or by a race with a change: a knote that does
\* not post again has a packet on its way (windows); triggers and exits have an
\* event in the port (solaris); a parked thread watches what it has to, and
\* the eventfd of a triggered knote is readable (posix); every zombie will be
\* seen and every ready knote announced (wait thread); an expiration or a
\* change of a file that was not reported wakes a thread (linux).
PendingIsComing ==
    CASE build = "windows" -> Windows!OwedHasPacket
      [] build = "solaris" -> Solaris!TriggerNotLost /\ Solaris!ReadyHasEvent
      [] build \in PosixBuilds -> Posix!ParkedIsCurrent /\ Posix!TriggeredIsReadable
      [] build = "wait" -> Wait!ZombieWillBeSeen /\ Wait!ReadyIsReadable
      [] build = "linux" -> Linux!ExpirationWakes /\ Linux!ChangeReported

\* Of several packets, or of several threads that saw a knote ready, one delivers
\* it: once per call (windows), once per arming of an EV_ONESHOT, EV_DISPATCH or
\* EV_CLEAR knote (solaris, posix), once per trigger (linux, EVFILT_USER).
DeliveredOnce ==
    CASE build = "windows" -> Windows!OncePerCall
      [] build = "solaris" -> Solaris!OncePerArming
      [] build \in PosixBuilds -> Posix!OncePerArming
      [] build = "linux" -> Linux!OneDispatchPerTrigger
      [] OTHER -> TRUE

\* What is delivered is true: EV_EOF only for a peer that has closed (windows);
\* only exits, for enabled knotes, and errors only for a process that somebody
\* reaped (wait thread); nothing fetched before EV_DISABLE or EV_DELETE, but
\* for EVFILT_USER (linux).
DeliveriesTrue ==
    CASE build = "windows" -> Windows!EofTrue
      [] build = "wait" -> Wait!DeliveriesTrue /\ Wait!ErrorMeansReaped
      [] build = "linux" -> Linux!FetchedSilent
      [] OTHER -> TRUE

\* A timer reports the expirations that happened since it was armed (posix,
\* linux).
ExpirationsCounted ==
    CASE build \in PosixBuilds -> Posix!ExpirationsCounted
      [] build = "linux" -> Linux!ExpirationsCounted
      [] OTHER -> TRUE

\* No copyout fails, which aborts the process (windows, except EVFILT_PROC) or
\* fails an assertion (linux), though its knote changed since the event was
\* queued.
CopyoutSucceeds ==
    CASE build = "windows" -> Windows!NeverAborts
      [] build = "linux" -> Linux!CopyoutSucceeds
      [] OTHER -> TRUE

\* Nothing is delivered for a knote that is deleted or disabled, although its
\* event was queued or fetched before (windows, solaris, posix).
DisabledSilent ==
    [][/\ build = "windows" => Windows!DeliversEnabled
       /\ build = "solaris" => Solaris!DeliversEnabled
       /\ build \in PosixBuilds => Posix!DeliversEnabled]_vars
=============================================================================
