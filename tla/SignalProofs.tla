---------------------------- MODULE SignalProofs ----------------------------
(***************************************************************************)
(* Proofs about Signal, for any finite set of kqueues, any signals and any *)
(* bounds.                                                                 *)
(***************************************************************************)
EXTENDS Signal, FiniteSetTheorems, TLAPS

\* Types: of the table and the signals, of the kqueues, of the thread.
TableTypes ==
    /\ list \in [Kqs -> [Sigs -> {"none", "enabled", "disabled"}]]
    /\ flags \in [Kqs -> [Sigs -> SUBSET Flags]]
    /\ count \in [Kqs -> [Sigs -> 0 .. MaxCount]]
    /\ s_links \in [Sigs -> SUBSET Kqs]
    /\ sfs_pending \in [Kqs -> SUBSET Sigs]
    /\ sig_active_set \subseteq Sigs /\ mask \subseteq Sigs /\ queued \subseteq Sigs

KqTypes ==
    /\ filt \in [Kqs -> FilterStates]
    /\ efd \in [Kqs -> BOOLEAN]
    /\ at \in [Kqs -> {"idle", "disable", "raise", "flags", "destroy"}]
    /\ emitted \in [Kqs -> SUBSET Sigs]
    /\ woken \in [Kqs -> 0 .. MaxWoken]

\* The filters sig_filter_count counts.
Users == {k \in Kqs : filt[k] \in {"on", "leaving"}}

\* sig_init_mtx is held from the start of the first filter, or the end of the
\* last, until the dispatch thread is there, or gone; nobody uses a filter then.
ThreadInv ==
    /\ sig_init_mtx \in Kqs \cup {Nobody}
    /\ sig_filter_count = Cardinality(Users)
    /\ thread \in {"off", "starting", "run", "dead"}
    /\ pipe \in BOOLEAN
    /\ \A k \in Kqs : sig_init_mtx = k <=> filt[k] \in {"starting", "joining"}
    /\ sig_init_mtx = Nobody => IF Users = {} THEN thread = "off" /\ ~pipe
                                ELSE thread = "run" /\ pipe
    /\ \A k \in Kqs : filt[k] = "starting" =>
         Users = {} /\ thread \in {"starting", "run"} /\ pipe
    /\ \A k \in Kqs : filt[k] = "joining" =>
         Users = {} /\ thread \in {"run", "dead"} /\ ~pipe

\* The table; what is no knote has no flags and has counted nothing.
TableInv ==
    /\ LinksExact
    /\ CountedIsPending
    /\ \A k \in Kqs, s \in Sigs : list[k][s] = "none" => flags[k][s] = {} /\ count[k][s] = 0

\* Where the holder of a kqueue's mutex is.
HolderInv ==
    /\ \A k \in Kqs : at[k] # "idle" => filt[k] = "on"
    /\ \A k \in Kqs : at[k] = "disable" => \A s \in emitted[k] : list[k][s] # "none"

\* The signals: what is pending for the process can still be counted.
QueueInv ==
    /\ NoEarlySignal
    /\ early \subseteq queued
    /\ \A s \in queued, k \in Kqs : count[k][s] < MaxCount

SigInv == TableTypes /\ KqTypes /\ ThreadInv /\ TableInv /\ HolderInv /\ QueueInv

USE SignalAssumption

LEMMA SameTableTypes == ASSUME TableTypes, UNCHANGED tableVars PROVE TableTypes'
  BY DEF TableTypes, tableVars

LEMMA SameTable == ASSUME TableInv, UNCHANGED <<tableVars, filt>> PROVE TableInv'
  BY DEF TableInv, LinksExact, CountedIsPending, tableVars

LEMMA SameQueue ==
  ASSUME QueueInv, UNCHANGED <<queued, early, sig_active_set, count>>
  PROVE  QueueInv'
  BY DEF QueueInv, NoEarlySignal

LEMMA SameHolder == ASSUME HolderInv, UNCHANGED <<filt, at, emitted, list>> PROVE HolderInv'
  BY DEF HolderInv

LEMMA SameThread == ASSUME ThreadInv, UNCHANGED <<threadVars, filt>> PROVE ThreadInv'
  BY DEF ThreadInv, threadVars, Users

LEMMA UsersFinite == IsFiniteSet(Users) /\ Cardinality(Users) \in 0 .. Cardinality(Kqs)
<1>1. Users \in SUBSET Kqs
  BY DEF Users
<1> QED
  BY <1>1, FS_Subset, FS_CardinalityType

LEMMA CountZero == ASSUME ThreadInv PROVE sig_filter_count = 0 <=> Users = {}
  BY UsersFinite, FS_EmptySet DEF ThreadInv

\* A step that concerns no filter and not the thread.
LEMMA TableStep ==
  ASSUME SigInv, UNCHANGED <<threadVars, filt>>,
         TableTypes', KqTypes', TableInv', HolderInv', QueueInv'
  PROVE  SigInv'
  BY SameThread DEF SigInv

--------------------------------------------------------------------------------
(* Starting and stopping *)

LEMMA FilterInitInv ==
  ASSUME SigInv, NEW k \in Kqs, FilterInit(k)
  PROVE  SigInv'
<1>0. TableTypes /\ KqTypes /\ ThreadInv /\ TableInv /\ HolderInv /\ QueueInv
  BY DEF SigInv
<1>1. /\ filt[k] = "off" /\ sig_init_mtx = Nobody
      /\ UNCHANGED <<list, flags, count, s_links, sfs_pending, queued, early,
                     efd, at, emitted, woken>>
  BY DEF FilterInit
<1>2. \A s \in Sigs : list[k][s] = "none"
  BY <1>0, <1>1 DEF TableInv, LinksExact
<1>3. CASE sig_filter_count = 0
  <2>1. /\ filt' = [filt EXCEPT ![k] = "starting"] /\ sig_init_mtx' = k /\ thread' = "starting"
        /\ pipe' = TRUE /\ sig_active_set' = {} /\ mask' = {} /\ UNCHANGED sig_filter_count
    BY <1>3 DEF FilterInit
  <2>2. Users = {}
    BY <1>0, <1>3, CountZero
  <2>3. \A x \in Kqs, s \in Sigs : list[x][s] = "none"
    BY <1>0, <2>2 DEF Users, TableInv, LinksExact
  <2>4. Users' = Users
    BY <1>0, <1>1, <2>1 DEF Users, KqTypes
  <2>5. ThreadInv'
    BY <1>0, <1>1, <2>1, <2>2, <2>4 DEF ThreadInv, KqTypes
  <2>6. TableInv'
    BY <1>0, <1>1, <2>1, <2>3 DEF TableInv, LinksExact, CountedIsPending, TableTypes
  <2>7. TableTypes' /\ KqTypes' /\ HolderInv' /\ QueueInv'
    BY <1>0, <1>1, <2>1 DEF TableTypes, KqTypes, HolderInv, QueueInv, NoEarlySignal, FilterStates
  <2> QED
    BY <2>5, <2>6, <2>7 DEF SigInv
<1>4. CASE sig_filter_count # 0
  <2>1. /\ filt' = [filt EXCEPT ![k] = "on"] /\ sig_filter_count' = sig_filter_count + 1
        /\ UNCHANGED <<sig_init_mtx, thread, pipe, sig_active_set, mask>>
    BY <1>4 DEF FilterInit
  <2>2. Users' = Users \cup {k} /\ k \notin Users
    BY <1>0, <1>1, <2>1 DEF Users, KqTypes
  <2>3. Users # {} /\ Cardinality(Users') = Cardinality(Users) + 1
    BY Zenon, <1>0, <1>4, <2>2, CountZero, UsersFinite, FS_AddElement
  <2>4. ThreadInv'
    BY <1>0, <1>1, <2>1, <2>2, <2>3 DEF ThreadInv, KqTypes
  <2>5. TableInv'
    BY <1>0, <1>1, <1>2, <2>1 DEF TableInv, LinksExact, CountedIsPending, KqTypes
  <2>6. TableTypes' /\ KqTypes' /\ HolderInv' /\ QueueInv'
    BY <1>0, <1>1, <2>1 DEF TableTypes, KqTypes, HolderInv, QueueInv, NoEarlySignal, FilterStates
  <2> QED
    BY <2>4, <2>5, <2>6 DEF SigInv
<1> QED
  BY <1>3, <1>4

LEMMA DispatchStartedInv ==
  ASSUME SigInv, DispatchStarted \/ DispatchExit
  PROVE  SigInv'
<1>0. TableTypes /\ KqTypes /\ ThreadInv /\ TableInv /\ HolderInv /\ QueueInv
  BY DEF SigInv
<1>1. /\ UNCHANGED <<tableVars, kqVars, sig_init_mtx, sig_filter_count, pipe>>
      /\ \/ thread = "starting" /\ thread' = "run"
         \/ thread = "run" /\ ~pipe /\ thread' = "dead"
  BY DEF DispatchStarted, DispatchExit
<1>2. Users' = Users
  BY <1>1 DEF Users, kqVars
<1>3. ThreadInv'
  BY <1>0, <1>1, <1>2 DEF ThreadInv, kqVars
<1>4. TableTypes' /\ TableInv' /\ QueueInv' /\ HolderInv'
  BY <1>0, <1>1, SameTableTypes, SameTable, SameQueue, SameHolder DEF tableVars, kqVars
<1>5. KqTypes'
  BY <1>0, <1>1 DEF KqTypes, kqVars
<1> QED
  BY <1>3, <1>4, <1>5 DEF SigInv

LEMMA FilterInitDoneInv ==
  ASSUME SigInv, NEW k \in Kqs, FilterInitDone(k)
  PROVE  SigInv'
<1>0. TableTypes /\ KqTypes /\ ThreadInv /\ TableInv /\ HolderInv /\ QueueInv
  BY DEF SigInv
<1>1. /\ filt[k] = "starting" /\ thread = "run" /\ filt' = [filt EXCEPT ![k] = "on"]
      /\ sig_filter_count' = sig_filter_count + 1 /\ sig_init_mtx' = Nobody
      /\ UNCHANGED <<tableVars, thread, pipe, efd, at, emitted, woken>>
  BY DEF FilterInitDone
<1>2. Users' = Users \cup {k} /\ k \notin Users
  BY <1>0, <1>1 DEF Users, KqTypes
<1>3. Cardinality(Users') = Cardinality(Users) + 1
  BY Zenon, <1>2, UsersFinite, FS_AddElement
<1>4. ThreadInv'
  BY <1>0, <1>1, <1>2, <1>3 DEF ThreadInv, KqTypes
<1>5. TableInv'
  BY <1>0, <1>1 DEF TableInv, LinksExact, CountedIsPending, KqTypes, tableVars
<1>6. TableTypes' /\ QueueInv'
  BY <1>0, <1>1, SameTableTypes, SameQueue DEF tableVars
<1>7. KqTypes' /\ HolderInv'
  BY <1>0, <1>1 DEF KqTypes, HolderInv, FilterStates, tableVars
<1> QED
  BY <1>4, <1>5, <1>6, <1>7 DEF SigInv

LEMMA FilterDestroyInv ==
  ASSUME SigInv, NEW k \in Kqs, FilterDestroy(k)
  PROVE  SigInv'
<1>0. TableTypes /\ KqTypes /\ ThreadInv /\ TableInv /\ HolderInv /\ QueueInv
  BY DEF SigInv
<1>1. /\ filt[k] = "on" /\ \A s \in Sigs : list[k][s] = "none"
  BY <1>0 DEF FilterDestroy, HolderInv
<1>2. /\ filt' = [filt EXCEPT ![k] = "leaving"]
      /\ efd' = [efd EXCEPT ![k] = FALSE] /\ at' = [at EXCEPT ![k] = "idle"]
      /\ UNCHANGED <<list, flags, count, sig_active_set, mask, queued, early,
                     threadVars, emitted, woken>>
  BY DEF FilterDestroy
<1>3. s_links' = s_links /\ sfs_pending' = sfs_pending
  <2>1. \A s \in Sigs : k \notin s_links[s]
    BY <1>0, <1>1 DEF TableInv, LinksExact
  <2>2. sfs_pending[k] = {}
    BY <1>0, <1>1 DEF TableInv, CountedIsPending, TableTypes
  <2> QED
    BY <1>0, <2>1, <2>2 DEF FilterDestroy, TableTypes
<1>4. Users' = Users
  BY <1>0, <1>1, <1>2 DEF Users, KqTypes
<1>5. ThreadInv'
  BY <1>0, <1>1, <1>2, <1>4 DEF ThreadInv, KqTypes, threadVars
<1>6. TableInv'
  BY <1>0, <1>1, <1>2, <1>3 DEF TableInv, LinksExact, CountedIsPending, KqTypes
<1>7. TableTypes' /\ QueueInv'
  BY <1>0, <1>2, <1>3, SameTableTypes, SameQueue DEF tableVars
<1>8. KqTypes' /\ HolderInv'
  BY <1>0, <1>2 DEF KqTypes, HolderInv, FilterStates
<1> QED
  BY <1>5, <1>6, <1>7, <1>8 DEF SigInv

\* The last filter stops the thread, and no other does.
LEMMA FilterLeaveInv ==
  ASSUME SigInv, NEW k \in Kqs, FilterLeave(k)
  PROVE  SigInv'
<1>0. TableTypes /\ KqTypes /\ ThreadInv /\ TableInv /\ HolderInv /\ QueueInv
  BY DEF SigInv
<1>1. /\ filt[k] = "leaving" /\ sig_init_mtx = Nobody
      /\ sig_filter_count' = sig_filter_count - 1
      /\ UNCHANGED <<tableVars, thread, efd, at, emitted, woken>>
      /\ filt' = [filt EXCEPT ![k] = IF sig_filter_count' = 0 THEN "joining" ELSE "off"]
      /\ sig_init_mtx' = IF sig_filter_count' = 0 THEN k ELSE Nobody
      /\ pipe' = IF sig_filter_count' = 0 THEN FALSE ELSE pipe
  BY Zenon DEF FilterLeave
<1>2. Users' = Users \ {k} /\ k \in Users
  BY <1>0, <1>1 DEF Users, KqTypes
<1>3. sig_filter_count' = Cardinality(Users')
  BY Zenon, <1>0, <1>1, <1>2, UsersFinite, FS_RemoveElement DEF ThreadInv
<1>4. sig_filter_count' = 0 <=> Users' = {}
  BY <1>2, <1>3, UsersFinite, FS_RemoveElement, FS_EmptySet
<1>5. thread = "run" /\ pipe /\ \A x \in Kqs : filt[x] \notin {"starting", "joining"}
  BY <1>0, <1>1, <1>2 DEF ThreadInv
<1>6. ThreadInv'
  <2>1. CASE sig_filter_count' = 0
    BY <1>0, <1>1, <1>3, <1>4, <1>5, <2>1 DEF ThreadInv, KqTypes
  <2>2. CASE sig_filter_count' # 0
    BY <1>0, <1>1, <1>3, <1>4, <1>5, <2>2 DEF ThreadInv, KqTypes
  <2> QED
    BY <2>1, <2>2
<1>7. TableInv'
  BY <1>0, <1>1 DEF TableInv, LinksExact, CountedIsPending, KqTypes, tableVars
<1>8. TableTypes' /\ QueueInv'
  BY SMTT(30), <1>0, <1>1, SameTableTypes, SameQueue DEF tableVars
<1>9. KqTypes' /\ HolderInv'
  BY <1>0, <1>1 DEF KqTypes, HolderInv, FilterStates, tableVars
<1> QED
  BY <1>6, <1>7, <1>8, <1>9 DEF SigInv

LEMMA DispatchJoinedInv ==
  ASSUME SigInv, NEW k \in Kqs, DispatchJoined(k)
  PROVE  SigInv'
<1>0. TableTypes /\ KqTypes /\ ThreadInv /\ TableInv /\ HolderInv /\ QueueInv
  BY DEF SigInv
<1>1. /\ filt[k] = "joining" /\ thread' = "off" /\ filt' = [filt EXCEPT ![k] = "off"]
      /\ sig_init_mtx' = Nobody /\ mask' = {}
      /\ UNCHANGED <<list, flags, count, s_links, sfs_pending, sig_active_set, queued,
                     early, sig_filter_count, pipe, efd, at, emitted, woken>>
  BY DEF DispatchJoined
<1>2. Users' = Users
  BY <1>0, <1>1 DEF Users, KqTypes
<1>3. ThreadInv'
  BY <1>0, <1>1, <1>2 DEF ThreadInv, KqTypes
<1>4. TableInv'
  BY <1>0, <1>1 DEF TableInv, LinksExact, CountedIsPending, KqTypes
<1>5. TableTypes' /\ QueueInv'
  BY <1>0, <1>1, SameQueue DEF TableTypes
<1>6. KqTypes' /\ HolderInv'
  BY <1>0, <1>1 DEF KqTypes, HolderInv, FilterStates
<1> QED
  BY <1>3, <1>4, <1>5, <1>6 DEF SigInv

--------------------------------------------------------------------------------
(* Knotes *)

\* evfilt_signal_knote_delete() takes a knote out of everything.
LEMMA KnDeleteTable ==
  ASSUME TableTypes, TableInv, QueueInv, NEW k \in Kqs, NEW s \in Sigs, KnDelete(k, s),
         UNCHANGED filt
  PROVE  TableTypes' /\ TableInv' /\ QueueInv'
<1>1. /\ list' = [list EXCEPT ![k][s] = "none"] /\ flags' = [flags EXCEPT ![k][s] = {}]
      /\ count' = [count EXCEPT ![k][s] = 0]
      /\ sfs_pending' = [sfs_pending EXCEPT ![k] = @ \ {s}]
      /\ s_links' = [s_links EXCEPT ![s] = @ \ {k}] /\ queued' = queued
      /\ sig_active_set' = IF s_links'[s] = {} THEN sig_active_set \ {s} ELSE sig_active_set
      /\ early' = IF s_links'[s] = {} THEN early \cup (queued \cap {s}) ELSE early
      /\ mask' \in {mask, sig_active_set'}
  BY DEF KnDelete, SigPlatformRemove
<1>2. TableTypes'
  BY <1>1 DEF TableTypes
<1>3. \A x \in Kqs, y \in Sigs :
        /\ list'[x][y] = IF x = k /\ y = s THEN "none" ELSE list[x][y]
        /\ flags'[x][y] = IF x = k /\ y = s THEN {} ELSE flags[x][y]
        /\ count'[x][y] = IF x = k /\ y = s THEN 0 ELSE count[x][y]
        /\ y \in sfs_pending'[x] <=> y \in sfs_pending[x] /\ ~(x = k /\ y = s)
        /\ x \in s_links'[y] <=> x \in s_links[y] /\ ~(x = k /\ y = s)
  BY <1>1 DEF TableTypes
<1>4. LinksExact'
  <2>1. \A y \in Sigs : s_links'[y] = {x \in Kqs : list'[x][y] # "none"}
    BY <1>2, <1>3 DEF TableInv, LinksExact, TableTypes
  <2>2. \A x \in Kqs, y \in Sigs : list'[x][y] # "none" => filt'[x] = "on"
    BY <1>3 DEF TableInv, LinksExact
  <2>3. \A y \in Sigs : y # s => s_links'[y] = s_links[y]
    BY <1>1 DEF TableTypes
  <2>4. \A y \in Sigs : y \in sig_active_set' <=> s_links'[y] # {}
    BY <1>1, <2>3 DEF TableInv, LinksExact, TableTypes
  <2> QED
    BY <2>1, <2>2, <2>4 DEF LinksExact
<1>5. TableInv'
  BY <1>3, <1>4 DEF TableInv, CountedIsPending
<1>6. QueueInv'
  BY <1>1, <1>3 DEF QueueInv, NoEarlySignal, TableTypes
<1> QED
  BY <1>2, <1>5, <1>6

\* evfilt_signal_knote_disable() takes it off sfs_pending.
LEMMA KnDisableTable ==
  ASSUME TableTypes, TableInv, QueueInv, NEW k \in Kqs, NEW s \in Sigs, KnDisable(k, s),
         list[k][s] # "none", UNCHANGED filt
  PROVE  TableTypes' /\ TableInv' /\ QueueInv'
<1>1. /\ list' = [list EXCEPT ![k][s] = "disabled"]
      /\ flags' = [flags EXCEPT ![k][s] = @ \cup {"EV_DISABLE"}]
      /\ sfs_pending' = [sfs_pending EXCEPT ![k] = @ \ {s}]
      /\ UNCHANGED <<count, s_links, sig_active_set, mask, queued, early>>
  BY DEF KnDisable
<1>2. TableTypes'
  BY <1>1 DEF TableTypes, Flags
<1>3. \A x \in Kqs, y \in Sigs :
        /\ list'[x][y] = IF x = k /\ y = s THEN "disabled" ELSE list[x][y]
        /\ ~(x = k /\ y = s) => flags'[x][y] = flags[x][y]
        /\ y \in sfs_pending'[x] <=> y \in sfs_pending[x] /\ ~(x = k /\ y = s)
  BY <1>1 DEF TableTypes
<1>4. \A x \in Kqs, y \in Sigs : list'[x][y] # "none" <=> list[x][y] # "none"
  BY <1>3
<1>5. LinksExact'
  BY <1>1, <1>4 DEF TableInv, LinksExact
<1>6. TableInv'
  BY <1>1, <1>3, <1>5 DEF TableInv, CountedIsPending
<1>7. QueueInv'
  BY <1>1, SameQueue
<1> QED
  BY <1>2, <1>6, <1>7

LEMMA CreateInv ==
  ASSUME SigInv, NEW k \in Kqs, NEW s \in Sigs, NEW fl \in Adds, Create(k, s, fl)
  PROVE  SigInv'
<1>0. TableTypes /\ KqTypes /\ TableInv /\ HolderInv /\ QueueInv
  BY DEF SigInv
<1>1. /\ filt[k] = "on" /\ at[k] = "idle" /\ list[k][s] = "none"
      /\ list' = [list EXCEPT ![k][s] = "enabled"] /\ flags' = [flags EXCEPT ![k][s] = fl]
      /\ s_links' = [s_links EXCEPT ![s] = @ \cup {k}]
      /\ UNCHANGED <<count, sfs_pending, threadVars, filt, efd, woken>>
      /\ at' = IF "EV_DISABLE" \in fl THEN [at EXCEPT ![k] = "disable"] ELSE at
      /\ emitted' = IF "EV_DISABLE" \in fl THEN [emitted EXCEPT ![k] = {s}] ELSE emitted
      /\ fl \subseteq Flags
  BY DEF Create, Changing
<1>2. /\ sig_active_set' = sig_active_set \cup {s} /\ mask' \in {mask, sig_active_set'}
      /\ queued' \subseteq queued /\ early' \subseteq early
      /\ early' \cap sig_active_set' = {} /\ early' \subseteq queued'
  <2>1. CASE s_links[s] = {}
    BY <1>0, <2>1 DEF Create, SigPlatformAdd, QueueInv, NoEarlySignal
  <2>2. CASE s_links[s] # {}
    <3>1. s \in sig_active_set
      BY <1>0, <2>2 DEF TableInv, LinksExact
    <3> QED
      BY <1>0, <2>2, <3>1 DEF Create, QueueInv, NoEarlySignal
  <2> QED
    BY <2>1, <2>2
<1>3. TableTypes'
  BY <1>0, <1>1, <1>2 DEF TableTypes
<1>4. \A x \in Kqs, y \in Sigs :
        /\ list'[x][y] = IF x = k /\ y = s THEN "enabled" ELSE list[x][y]
        /\ ~(x = k /\ y = s) => flags'[x][y] = flags[x][y]
        /\ x \in s_links'[y] <=> x \in s_links[y] \/ (x = k /\ y = s)
  BY <1>0, <1>1 DEF TableTypes
<1>5. LinksExact'
  <2>1. \A y \in Sigs : s_links'[y] = {x \in Kqs : list'[x][y] # "none"}
    <3>1. \A x \in Kqs, y \in Sigs : x \in s_links'[y] <=> list'[x][y] # "none"
      BY <1>0, <1>4 DEF TableInv, LinksExact
    <3>2. \A y \in Sigs : s_links'[y] \subseteq Kqs
      BY <1>3 DEF TableTypes
    <3> QED
      BY <3>1, <3>2
  <2>2. \A x \in Kqs, y \in Sigs : list'[x][y] # "none" => filt'[x] = "on"
    BY <1>0, <1>1, <1>4 DEF TableInv, LinksExact
  <2>3. \A y \in Sigs : y \in sig_active_set' <=> s_links'[y] # {}
    BY <1>0, <1>1, <1>2 DEF TableInv, LinksExact, TableTypes
  <2> QED
    BY <2>1, <2>2, <2>3 DEF LinksExact
<1>6. TableInv'
  <2>1. count[k][s] = 0 /\ s \notin sfs_pending[k]
    BY <1>0, <1>1 DEF TableInv, CountedIsPending
  <2> QED
    BY <1>0, <1>1, <1>4, <1>5, <2>1 DEF TableInv, CountedIsPending
<1>7. KqTypes'
  BY <1>0, <1>1 DEF KqTypes
<1>8. HolderInv'
  BY <1>0, <1>1, <1>4 DEF HolderInv, KqTypes
<1>9. QueueInv'
  BY <1>0, <1>1, <1>2 DEF QueueInv, NoEarlySignal
<1> QED
  BY <1>1, <1>3, <1>6, <1>7, <1>8, <1>9, TableStep

LEMMA CreateFailedInv ==
  ASSUME SigInv, NEW k \in Kqs, NEW s \in Sigs, CreateFailed(k, s)
  PROVE  SigInv'
<1>0. TableTypes /\ KqTypes /\ TableInv /\ HolderInv /\ QueueInv
  BY DEF SigInv
<1>1. TableTypes' /\ KqTypes' /\ TableInv' /\ HolderInv' /\ QueueInv'
  BY <1>0 DEF CreateFailed, TableTypes, KqTypes, TableInv, LinksExact, CountedIsPending,
     HolderInv, QueueInv, NoEarlySignal, kqVars
<1> QED
  BY <1>1, TableStep DEF CreateFailed, kqVars

LEMMA ModifyInv ==
  ASSUME SigInv, NEW k \in Kqs, NEW s \in Sigs, NEW fl \in Adds, Modify(k, s, fl)
  PROVE  SigInv'
<1>0. TableTypes /\ KqTypes /\ TableInv /\ HolderInv /\ QueueInv
  BY DEF SigInv
<1>1. /\ list[k][s] # "none" /\ fl \subseteq Flags /\ flags' = [flags EXCEPT ![k][s] = fl]
      /\ UNCHANGED <<list, count, s_links, sfs_pending, sig_active_set, mask, queued,
                     early, threadVars, filt, efd, at, emitted, woken>>
  BY DEF Modify, kqVars
<1>2. TableTypes' /\ KqTypes'
  BY <1>0, <1>1 DEF TableTypes, KqTypes
<1>3. TableInv'
  BY <1>0, <1>1 DEF TableTypes, TableInv, LinksExact, CountedIsPending
<1>4. HolderInv' /\ QueueInv'
  BY <1>0, <1>1, SameHolder, SameQueue
<1> QED
  BY <1>1, <1>2, <1>3, <1>4, TableStep

\* EV_DELETE, and the deletion of a knote with its kqueue.
LEMMA DeleteInv ==
  ASSUME SigInv, NEW k \in Kqs, NEW s \in Sigs, Delete(k, s) \/ DestroyKnote(k, s)
  PROVE  SigInv'
<1>0. TableTypes /\ KqTypes /\ TableInv /\ HolderInv /\ QueueInv
  BY DEF SigInv
<1>1. /\ KnDelete(k, s) /\ UNCHANGED <<threadVars, filt, efd, at, emitted, woken>>
      /\ at[k] # "disable"
  BY DEF Delete, DestroyKnote, kqVars, Changing
<1>2. TableTypes' /\ TableInv' /\ QueueInv'
  BY <1>0, <1>1, KnDeleteTable
<1>3. KqTypes'
  BY <1>0, <1>1 DEF KqTypes
<1>4. HolderInv'
  BY <1>0, <1>1 DEF HolderInv, KnDelete, TableTypes, KqTypes
<1> QED
  BY <1>1, <1>2, <1>3, <1>4, TableStep

\* EV_DISABLE of a knote, or right after its creation.
LEMMA DisableInv ==
  ASSUME SigInv, NEW k \in Kqs, NEW s \in Sigs, Disable(k, s) \/ CreateDisable(k, s)
  PROVE  SigInv'
<1>0. TableTypes /\ KqTypes /\ TableInv /\ HolderInv /\ QueueInv
  BY DEF SigInv
<1>1. /\ KnDisable(k, s) /\ list[k][s] # "none" /\ UNCHANGED <<threadVars, filt, efd, woken>>
  BY <1>0 DEF Disable, CreateDisable, kqVars, HolderInv
<1>2. TableTypes' /\ TableInv' /\ QueueInv'
  BY <1>0, <1>1, KnDisableTable
<1>3. \A x \in Kqs, y \in Sigs : list'[x][y] # "none" <=> list[x][y] # "none"
  BY <1>0, <1>1 DEF KnDisable, TableTypes
<1>4. KqTypes' /\ HolderInv'
  <2>1. CASE Disable(k, s)
    BY SMTT(30), <1>0, <1>3, <2>1 DEF Disable, kqVars, KqTypes, HolderInv
  <2>2. CASE CreateDisable(k, s)
    BY <1>0, <1>3, <2>2 DEF CreateDisable, KqTypes, HolderInv
  <2> QED
    BY <2>1, <2>2
<1> QED
  BY <1>1, <1>2, <1>4, TableStep

LEMMA EnableInv ==
  ASSUME SigInv, NEW k \in Kqs, NEW s \in Sigs, Enable(k, s)
  PROVE  SigInv'
<1>0. TableTypes /\ KqTypes /\ TableInv /\ HolderInv /\ QueueInv
  BY DEF SigInv
<1>1. /\ filt[k] = "on" /\ at[k] = "idle" /\ "EV_DISABLE" \in flags[k][s]
      /\ list' = [list EXCEPT ![k][s] = "enabled"]
      /\ flags' = [flags EXCEPT ![k][s] = @ \ {"EV_DISABLE"}]
      /\ sfs_pending' = IF count[k][s] > 0 THEN [sfs_pending EXCEPT ![k] = @ \cup {s}]
                                           ELSE sfs_pending
      /\ at' = at \/ at' = [at EXCEPT ![k] = "raise"]
      /\ UNCHANGED <<count, s_links, sig_active_set, mask, queued, early, threadVars,
                     filt, efd, emitted, woken>>
  BY DEF Enable, Changing
<1>2. list[k][s] # "none"
  BY <1>0, <1>1 DEF TableInv
<1>3. TableTypes' /\ KqTypes'
  <2>1. flags[k][s] \ {"EV_DISABLE"} \in SUBSET Flags /\ sfs_pending[k] \cup {s} \in SUBSET Sigs
    BY <1>0 DEF TableTypes
  <2>2. sfs_pending' \in [Kqs -> SUBSET Sigs]
    BY <1>0, <1>1, <2>1 DEF TableTypes
  <2>3. flags' \in [Kqs -> [Sigs -> SUBSET Flags]]
    BY <1>0, <1>1, <2>1 DEF TableTypes
  <2>4. list' \in [Kqs -> [Sigs -> {"none", "enabled", "disabled"}]]
    BY <1>0, <1>1 DEF TableTypes
  <2> QED
    BY ZenonT(30), <1>0, <1>1, <2>2, <2>3, <2>4 DEF TableTypes, KqTypes
<1>4. \A x \in Kqs, y \in Sigs :
        /\ list'[x][y] = IF x = k /\ y = s THEN "enabled" ELSE list[x][y]
        /\ ~(x = k /\ y = s) => flags'[x][y] = flags[x][y]
        /\ y \in sfs_pending'[x] <=> y \in sfs_pending[x] \/ (x = k /\ y = s /\ count[k][s] > 0)
  BY <1>0, <1>1 DEF TableTypes
<1>5. \A x \in Kqs, y \in Sigs : list'[x][y] # "none" <=> list[x][y] # "none"
  BY <1>2, <1>4
<1>6. LinksExact'
  BY <1>0, <1>1, <1>5 DEF TableInv, LinksExact
<1>7. TableInv'
  BY <1>0, <1>1, <1>2, <1>4, <1>6 DEF TableInv, CountedIsPending
<1>8. HolderInv'
  BY <1>0, <1>1, <1>5 DEF HolderInv, KqTypes
<1>9. QueueInv'
  BY <1>0, <1>1, SameQueue
<1> QED
  BY <1>1, <1>3, <1>7, <1>8, <1>9, TableStep

\* A step that leaves table and signals alone.
LEMMA KqStep ==
  ASSUME SigInv, UNCHANGED <<tableVars, threadVars, filt>>, KqTypes', HolderInv'
  PROVE  SigInv'
<1>1. TableTypes' /\ TableInv' /\ QueueInv'
  BY SameTableTypes, SameTable, SameQueue DEF SigInv, tableVars
<1> QED
  BY <1>1, TableStep

LEMMA OtherCallInv ==
  ASSUME SigInv, NEW k \in Kqs,
         EnableRaise(k) \/ Destroy(k) \/ Wake(k) \/ CopyoutSkip(k) \/ CopyoutLower(k)
  PROVE  SigInv'
<1>0. KqTypes /\ HolderInv
  BY DEF SigInv
<1>1. /\ UNCHANGED <<tableVars, threadVars, filt, emitted>>
      /\ efd' \in {efd, [efd EXCEPT ![k] = TRUE], [efd EXCEPT ![k] = FALSE]}
      /\ \/ at' \in {at, [at EXCEPT ![k] = "idle"]}
         \/ filt[k] = "on" /\ at' = [at EXCEPT ![k] = "destroy"]
  BY DEF EnableRaise, Destroy, Wake, CopyoutSkip, CopyoutLower, Changing
<1>2. woken' \in [Kqs -> 0 .. MaxWoken]
  <2>1. CASE Wake(k)
    BY <1>0, <2>1 DEF Wake, KqTypes
  <2>2. CASE CopyoutSkip(k)
    BY <1>0, <2>2 DEF CopyoutSkip, KqTypes
  <2> QED
    BY <1>0, <2>1, <2>2 DEF EnableRaise, Destroy, CopyoutLower, KqTypes
<1>3. KqTypes'
  BY ZenonT(30), <1>0, <1>1, <1>2 DEF KqTypes
<1>4. HolderInv'
  BY <1>0, <1>1 DEF KqTypes, HolderInv, tableVars
<1> QED
  BY <1>1, <1>3, <1>4, KqStep

--------------------------------------------------------------------------------
(* Signals *)

\* Every knote of a signal that is read counts it; the enabled ones are pending.
LEMMA DispatchInv ==
  ASSUME SigInv, Dispatch
  PROVE  SigInv'
<1> DEFINE got == queued \cap mask
<1>0. TableTypes /\ KqTypes /\ TableInv /\ HolderInv /\ QueueInv
  BY SMTT(30) DEF SigInv
<1>1. /\ count' = [k \in Kqs |-> [s \in Sigs |->
                     IF s \in got /\ Counted(k, s) THEN count[k][s] + 1 ELSE count[k][s]]]
      /\ queued' = queued \ got /\ early' = early \ got
      /\ UNCHANGED <<list, flags, s_links, sig_active_set, mask, threadVars, filt,
                     at, emitted, woken>>
  BY ZenonT(30) DEF Dispatch
<1>2. /\ sfs_pending' = [k \in Kqs |-> sfs_pending[k] \cup
           ({s \in got : k \in s_links[s] /\ list[k][s] = "enabled"} \ sfs_pending[k])]
      /\ efd' \in [Kqs -> BOOLEAN]
  BY <1>0 DEF Dispatch, KqTypes
<1>3. got \subseteq Sigs /\ got \subseteq queued
  BY SMTT(30), <1>0 DEF TableTypes
<1> HIDE DEF got
<1>4. \A k \in Kqs, s \in Sigs : Counted(k, s) <=> list[k][s] # "none"
  BY <1>0 DEF Counted, TableInv, LinksExact
<1>5. \A k \in Kqs, s \in Sigs :
        count'[k][s] = IF s \in got /\ list[k][s] # "none" THEN count[k][s] + 1 ELSE count[k][s]
  BY <1>1, <1>4
<1>6. \A k \in Kqs, s \in Sigs :
        s \in sfs_pending'[k] <=> s \in sfs_pending[k] \/ (s \in got /\ list[k][s] = "enabled")
  <2>1. \A k \in Kqs, s \in Sigs : list[k][s] = "enabled" => k \in s_links[s]
    BY <1>0 DEF TableInv, LinksExact
  <2> QED
    BY <1>2, <2>1
<1>7. \A k \in Kqs, s \in Sigs : count[k][s] \in 0 .. MaxCount
  BY <1>0 DEF TableTypes
<1>8. TableTypes'
  <2>1. \A k \in Kqs, s \in Sigs : count'[k][s] \in 0 .. MaxCount
    BY SMTT(30), <1>0, <1>3, <1>5, <1>7 DEF QueueInv
  <2>2. count' \in [Kqs -> [Sigs -> 0 .. MaxCount]]
    BY <1>1, <2>1
  <2>3. sfs_pending' \in [Kqs -> SUBSET Sigs]
    BY <1>0, <1>2, <1>3 DEF TableTypes
  <2> QED
    BY <1>0, <1>1, <2>2, <2>3 DEF TableTypes
<1>9. TableInv'
  <2>1. LinksExact'
    BY SMTT(30), <1>0, <1>1 DEF TableInv, LinksExact
  <2>2. CountedIsPending'
    BY SMTT(30), <1>0, <1>1, <1>5, <1>6, <1>7 DEF TableInv, CountedIsPending
  <2>3. \A k \in Kqs, s \in Sigs : list'[k][s] = "none" => flags'[k][s] = {} /\ count'[k][s] = 0
    BY <1>0, <1>1, <1>5 DEF TableInv
  <2> QED
    BY SMTT(30), <2>1, <2>2, <2>3 DEF TableInv
<1>10. KqTypes'
  BY ZenonT(30), <1>0, <1>1, <1>2 DEF KqTypes
<1>11. HolderInv'
  BY ZenonT(30), <1>0, <1>1, SameHolder
<1>12. QueueInv'
  <2>1. NoEarlySignal' /\ early' \subseteq queued'
    BY ZenonT(30), <1>0, <1>1 DEF QueueInv, NoEarlySignal
  <2>2. \A s \in queued', k \in Kqs : count'[k][s] < MaxCount
    BY <1>0, <1>1, <1>5 DEF QueueInv, TableTypes
  <2> QED
    BY SMTT(30), <2>1, <2>2 DEF QueueInv
<1> QED
  BY Zenon, <1>1, <1>8, <1>9, <1>10, <1>11, <1>12, TableStep

LEMMA KillInv ==
  ASSUME SigInv, NEW s \in Sigs, Kill(s)
  PROVE  SigInv'
<1>0. TableTypes /\ KqTypes /\ TableInv /\ HolderInv /\ QueueInv
  BY DEF SigInv
<1>1. /\ queued' = queued \cup {s} /\ \A k \in Kqs : count[k][s] < MaxCount
      /\ early' = IF s \in sig_active_set THEN early ELSE early \cup {s}
      /\ UNCHANGED <<list, flags, count, s_links, sfs_pending, sig_active_set, mask,
                     threadVars, filt, efd, at, emitted, woken>>
  BY Zenon DEF Kill, kqVars
<1>2. TableTypes' /\ KqTypes'
  BY SMTT(30), <1>0, <1>1 DEF TableTypes, KqTypes
<1>3. TableInv'
  BY SMTT(30), <1>0, <1>1 DEF TableInv, LinksExact, CountedIsPending
<1>4. HolderInv' /\ QueueInv'
  BY SMTT(30), <1>0, <1>1 DEF HolderInv, QueueInv, NoEarlySignal
<1> QED
  BY Zenon, <1>1, <1>2, <1>3, <1>4, TableStep

\* A partial copyout leaves the rest pending.
LEMMA CopyoutInv ==
  ASSUME SigInv, NEW k \in Kqs, NEW S \in SUBSET Sigs, NEW room \in Rooms, Copyout(k, S, room)
  PROVE  SigInv'
<1>0. TableTypes /\ KqTypes /\ TableInv /\ HolderInv /\ QueueInv
  BY DEF SigInv
<1>1. /\ filt[k] = "on" /\ woken[k] > 0
      /\ woken' = [woken EXCEPT ![k] = @ - 1]
      /\ sfs_pending' = [sfs_pending EXCEPT ![k] = @ \ S]
      /\ count' = [count EXCEPT ![k] = [s \in Sigs |-> IF s \in S THEN 0 ELSE @[s]]]
      /\ emitted' = [emitted EXCEPT ![k] = S] /\ at' = [at EXCEPT ![k] = "flags"]
      /\ UNCHANGED <<list, flags, s_links, sig_active_set, mask, queued, early,
                     threadVars, filt, efd>>
  BY DEF Copyout, Changing
<1>2. \A x \in Kqs, y \in Sigs :
        /\ count'[x][y] = IF x = k /\ y \in S THEN 0 ELSE count[x][y]
        /\ y \in sfs_pending'[x] <=> y \in sfs_pending[x] /\ ~(x = k /\ y \in S)
  BY <1>0, <1>1 DEF TableTypes
<1>3. TableTypes'
  <2>1. count' \in [Kqs -> [Sigs -> 0 .. MaxCount]]
    <3>1. [s \in Sigs |-> IF s \in S THEN 0 ELSE count[k][s]] \in [Sigs -> 0 .. MaxCount]
      BY SMTT(30), <1>0 DEF TableTypes
    <3> QED
      BY <1>0, <1>1, <3>1 DEF TableTypes
  <2> QED
    BY <1>0, <1>1, <2>1 DEF TableTypes
<1>4. TableInv'
  <2>1. LinksExact'
    BY SMTT(30), <1>0, <1>1 DEF TableInv, LinksExact
  <2> QED
    BY SMTT(30), <1>0, <1>1, <1>2, <2>1 DEF TableInv, CountedIsPending
<1>5. KqTypes'
  BY SMTT(30), <1>0, <1>1 DEF KqTypes
<1>6. HolderInv'
  BY <1>0, <1>1 DEF HolderInv, KqTypes
<1>7. QueueInv'
  <2>1. NoEarlySignal' /\ early' \subseteq queued'
    BY SMTT(30), <1>0, <1>1 DEF QueueInv, NoEarlySignal
  <2>2. \A s \in queued', x \in Kqs : count'[x][s] < MaxCount
    BY SMTT(30), <1>0, <1>1, <1>2 DEF QueueInv, TableTypes
  <2> QED
    BY SMTT(30), <2>1, <2>2 DEF QueueInv
<1> QED
  BY <1>1, <1>3, <1>4, <1>5, <1>6, <1>7, TableStep

LEMMA CopyoutFlagActionsInv ==
  ASSUME SigInv, NEW k \in Kqs, NEW s \in Sigs, CopyoutFlagActions(k, s)
  PROVE  SigInv'
<1>0. TableTypes /\ KqTypes /\ TableInv /\ HolderInv /\ QueueInv
  BY DEF SigInv
<1>1. /\ at[k] = "flags" /\ emitted' = [emitted EXCEPT ![k] = @ \ {s}]
      /\ UNCHANGED <<threadVars, filt, efd, at, woken>>
  BY SMTT(30) DEF CopyoutFlagActions
<1>2. /\ TableTypes' /\ TableInv' /\ QueueInv'
      /\ \A x \in Kqs, y \in Sigs : x # k => list'[x][y] = list[x][y]
  <2>1. CASE KnDelete(k, s)
    BY ZenonT(30), <1>0, <1>1, <2>1, KnDeleteTable DEF KnDelete, TableTypes
  <2>2. CASE "EV_DISPATCH" \in flags[k][s] /\ KnDisable(k, s)
    <3>1. list[k][s] # "none"
      BY SMTT(30), <1>0, <2>2 DEF TableInv
    <3> QED
      BY ZenonT(30), <1>0, <1>1, <2>2, <3>1, KnDisableTable DEF KnDisable, TableTypes
  <2>3. CASE UNCHANGED tableVars
    BY ZenonT(30), <1>0, <1>1, <2>3, SameTableTypes, SameTable, SameQueue DEF tableVars
  <2> QED
    BY ZenonT(30), <2>1, <2>2, <2>3 DEF CopyoutFlagActions
<1>3. KqTypes'
  BY <1>0, <1>1 DEF KqTypes
<1>4. HolderInv'
  <2>1. ASSUME NEW x \in Kqs, at[x] = "disable"
        PROVE  \A y \in emitted'[x] : list'[x][y] # "none"
    <3>1. x # k /\ emitted'[x] = emitted[x] /\ emitted[x] \subseteq Sigs
      BY <1>0, <1>1, <2>1 DEF KqTypes
    <3> QED
      BY <1>0, <1>2, <2>1, <3>1 DEF HolderInv
  <2> QED
    BY <1>0, <1>1, <2>1 DEF HolderInv
<1> QED
  BY SMTT(30), <1>1, <1>2, <1>3, <1>4, TableStep

--------------------------------------------------------------------------------

LEMMA SigInit == Init => SigInv
<1> SUFFICES ASSUME Init PROVE SigInv
  OBVIOUS
<1>1. Users = {}
  BY DEF Init, Users
<1>2. ThreadInv
  BY ZenonT(30), <1>1, FS_EmptySet DEF Init, ThreadInv
<1>3. TableTypes
  BY DEF Init, TableTypes
<1>4. KqTypes
  BY DEF Init, KqTypes, FilterStates
<1>5. TableInv /\ HolderInv /\ QueueInv
  BY Zenon DEF Init, TableInv, LinksExact, CountedIsPending, HolderInv, QueueInv, NoEarlySignal
<1> QED
  BY <1>2, <1>3, <1>4, <1>5 DEF SigInv

LEMMA SigStep == SigInv /\ [Next]_vars => SigInv'
<1> SUFFICES ASSUME SigInv, [Next]_vars PROVE SigInv'
  OBVIOUS
<1>1. ASSUME NEW k \in Kqs, Call(k) PROVE SigInv'
  BY <1>1, FilterInitInv, OtherCallInv, CreateInv, ModifyInv, CreateFailedInv, DeleteInv,
     DisableInv, EnableInv DEF Call
<1>2. ASSUME NEW k \in Kqs, Finish(k) PROVE SigInv'
  BY <1>2, FilterInitDoneInv, FilterDestroyInv, DispatchJoinedInv, OtherCallInv, DisableInv,
     DeleteInv, CopyoutFlagActionsInv DEF Finish
<1>3. ASSUME NEW k \in Kqs, FilterLeave(k) PROVE SigInv'
  BY <1>3, FilterLeaveInv
<1>4. ASSUME NEW k \in Kqs, Wake(k) \/ CopyoutSkip(k) PROVE SigInv'
  BY <1>4, OtherCallInv
<1>5. ASSUME NEW k \in Kqs, Deliver(k) PROVE SigInv'
  BY <1>5, CopyoutInv DEF Deliver
<1>6. ASSUME NEW s \in Sigs, Kill(s) PROVE SigInv'
  BY <1>6, KillInv
<1>7. CASE DispatchStarted \/ DispatchExit
  BY <1>7, DispatchStartedInv
<1>8. CASE Dispatch
  BY SMTT(30), <1>8, DispatchInv
<1>9. CASE UNCHANGED vars
  BY <1>9, KqStep, SameHolder DEF vars, tableVars, kqVars, SigInv, KqTypes
<1> QED
  BY <1>1, <1>2, <1>3, <1>4, <1>5, <1>6, <1>7, <1>8, <1>9 DEF Next

LEMMA SigInvariance == Spec => []SigInv
  BY SigInit, SigStep, PTL DEF Spec

\* The types, and: sig_init_mtx is held exactly while the dispatch thread is
\* started for the first filter or joined for the last.
THEOREM TypeOKHolds == Spec => []TypeOK
<1>1. ASSUME SigInv PROVE TypeOK
  <2>1. sig_filter_count \in 0 .. Cardinality(Kqs)
    BY ZenonT(30), <1>1, UsersFinite DEF SigInv, ThreadInv
  <2>2. sig_init_mtx # Nobody <=> \E k \in Kqs : filt[k] \in {"starting", "joining"}
    BY <1>1 DEF SigInv, ThreadInv
  <2> QED
    BY <1>1, <2>1, <2>2
       DEF SigInv, TypeOK, TableTypes, KqTypes, ThreadInv, QueueInv
<1> QED
  BY <1>1, SigInvariance, PTL

\* A filter that is in use has a dispatch thread, however the creation of first
\* and the destruction of last kqueues overlap.
THEOREM ServedHolds == Spec => []Served
<1>1. SigInv => Served
  BY DEF SigInv, ThreadInv, Served, Users
<1> QED
  BY <1>1, SigInvariance, PTL

\* sigtbl leads the dispatch thread to live filters only, and signalfd is asked
\* for exactly the signals that somebody wants.
THEOREM LinksExactHolds == Spec => []LinksExact
<1>1. SigInv => LinksExact
  BY DEF SigInv, TableInv
<1> QED
  BY <1>1, SigInvariance, PTL

\* No count of an enabled knote is forgotten, and no disabled knote is pending.
THEOREM CountedIsPendingHolds == Spec => []CountedIsPending
<1>1. SigInv => CountedIsPending
  BY DEF SigInv, TableInv
<1> QED
  BY <1>1, SigInvariance, PTL

\* What was sent while nobody watched is drained before the signal is watched.
THEOREM NoEarlySignalHolds == Spec => []NoEarlySignal
<1>1. SigInv => NoEarlySignal
  BY DEF SigInv, QueueInv
<1> QED
  BY <1>1, SigInvariance, PTL
=============================================================================
