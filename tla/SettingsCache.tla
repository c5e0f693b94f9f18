---------------------------- MODULE SettingsCache ----------------------------
(***************************************************************************)
(* The settings that every replica keeps a snapshot of, and their update:  *)
(* AppConfigServiceImpl over the table app_config.  A snapshot is used for *)
(* an interval after it was checked; then one caller at a time, behind the *)
(* refresh gate, compares update_time and reads the table again if it      *)
(* differs.  A refresh that fails keeps the last snapshot, marked with the *)
(* error.  An update commits, invalidates the snapshot of its own replica  *)
(* and reads it again.                                                     *)
(*                                                                         *)
(* Settings are their version: every update that changes a value also      *)
(* changes update_time, in the same transaction.                           *)
(*                                                                         *)
(* The service reads the clock as time.Now().UTC(), which has no monotonic *)
(* part: what it compares is the clock of the replica, which can be set.   *)
(***************************************************************************)
EXTENDS Naturals

CONSTANTS Caller,      \* calls under way in one replica, each one repeated at will
          NoCaller, NoCache,
          Interval,    \* checkInterval
          MaxNow,      \* bound of the time, and of what the clock is set to
          MaxVersion,  \* bound of the updates
          MaxFaults    \* bound of failed reads and writes, cancellations, crashes and clock changes

ASSUME NoneAssumption == NoCaller \notin Caller
ASSUME SizeAssumption == Interval \in Nat \ {0} /\ {MaxNow, MaxVersion, MaxFaults} \subseteq Nat

VARIABLES
  now,     \* history: the time that passed
  since,   \* history: the version that was in the table at a time
  wall,    \* the clock of the replica
  back,    \* history: by how much it was set back
  db,      \* version of the settings in the table
  cache,   \* the snapshot of the replica
  gate,    \* who is in its refresh gate
  call,    \* what each caller is doing
  answer,  \* history: what the last step told its caller
  faults

clock == <<now, since, wall, back>>
settings == <<clock, db, cache, gate, call, answer, faults>>

(* The sections that are read from the snapshot, the decision settings,    *)
(* which look at its error, and ontology maintenance, which reads the      *)
(* table itself.                                                           *)
Section == {"general", "decision", "ontology"}

Idle == [pc |-> "idle"]
NoAnswer == [kind |-> "none"]

SettingsInit ==
  /\ now = 0 /\ wall = 0 /\ back = 0 /\ db = 0 /\ faults = 0
  /\ since = [t \in {0} |-> 0]
  /\ cache = NoCache
  /\ gate = NoCaller
  /\ call = [c \in Caller |-> Idle]
  /\ answer = NoAnswer

Silent == answer' = NoAnswer

Fault == faults < MaxFaults /\ faults' = faults + 1

Goto(c, pc) == call' = [call EXCEPT ![c].pc = pc]
GotoWrite(c) == call' = [call EXCEPT ![c].pc = "write", ![c].at = 0, ![c].from = 0, ![c].got = 0]

-----------------------------------------------------------------------------
(* What a call does with the snapshot it gets, or without one.  A decision *)
(* call that is cancelled when its snapshot is ready returns the           *)
(* cancellation: to the others, a call whose answer nobody reads, or whose *)
(* write fails.                                                            *)

Return(c, a) ==
  /\ call' = [call EXCEPT ![c] = Idle]
  /\ answer' = a

(* asked is when the settings were asked for, or the refresh that answers  *)
(* was begun; wrote is the version an update has to show, 0 for a read.    *)
Told(c, version, stale, asked) ==
  [kind |-> call[c].section, version |-> version, stale |-> stale, asked |-> asked, wrote |-> call[c].wrote]

(* UpdateDecisionSettings refuses a stale snapshot before and after. *)
Refuses(c, stale) == stale /\ call[c].section = "decision" /\ call[c].stage # "read"

Serve(c, version, stale, asked) ==
  \/ Refuses(c, stale) /\ Return(c, NoAnswer)
  \/ /\ ~Refuses(c, stale) /\ call[c].stage = "before"
     /\ GotoWrite(c)
     /\ Silent
  \/ /\ ~Refuses(c, stale) /\ call[c].stage # "before"
     /\ Return(c, Told(c, version, stale, asked))

(* The other sections ignore an error of the read before the update. *)
Fail(c) ==
  IF call[c].stage = "before" /\ call[c].section = "general"
  THEN GotoWrite(c) /\ Silent
  ELSE Return(c, NoAnswer)

-----------------------------------------------------------------------------
(* currentCache                                                            *)

Fresh == cache # NoCache /\ ~cache.invalid /\ wall < cache.checked + Interval

ServeCache(c) == Serve(c, cache.version, cache.failed, now)

(* freshCache, without the gate *)
Look(c) ==
  /\ call[c].pc = "look"
  /\ IF Fresh THEN ServeCache(c) ELSE Goto(c, "gate") /\ Silent
  /\ UNCHANGED <<clock, db, cache, gate, faults>>

(* The gate is entered, and left again if somebody refreshed meanwhile. *)
Enter(c) ==
  /\ call[c].pc = "gate" /\ gate = NoCaller
  /\ IF Fresh
     THEN ServeCache(c) /\ UNCHANGED gate
     ELSE /\ gate' = c
          /\ call' = [call EXCEPT ![c].pc = "check", ![c].at = wall, ![c].from = now]
          /\ Silent
  /\ UNCHANGED <<clock, db, cache, faults>>

Leave == gate' = NoCaller

(* GetUpdateTime *)
Check(c) ==
  /\ call[c].pc = "check"
  /\ call' = [call EXCEPT ![c].pc = "compare", ![c].got = db]
  /\ Silent /\ UNCHANGED <<clock, db, cache, gate, faults>>

Unchanged(c) ==
  cache # NoCache /\ ~cache.invalid /\ call[c].got = cache.version

Compare(c) ==
  /\ call[c].pc = "compare"
  /\ \/ /\ Unchanged(c)
        /\ cache' = [cache EXCEPT !.checked = call[c].at, !.verified = call[c].from, !.failed = FALSE]
        /\ Serve(c, call[c].got, FALSE, call[c].from)
        /\ Leave
     \/ /\ ~Unchanged(c)
        /\ Goto(c, "list")
        /\ UNCHANGED <<cache, gate>> /\ Silent
  /\ UNCHANGED <<clock, db, faults>>

(* List *)
List(c) ==
  /\ call[c].pc = "list"
  /\ call' = [call EXCEPT ![c].pc = "install", ![c].got = db]
  /\ Silent /\ UNCHANGED <<clock, db, cache, gate, faults>>

\* Variant: the snapshot counts as checked when it is installed, not from before it was read.
InstalledNow(c) ==
  [version |-> call[c].got, checked |-> wall, verified |-> now, failed |-> FALSE, invalid |-> FALSE]
(* buildAppConfigCache: checkedAt as the clock showed it, verifiedAt as    *)
(* the time that was.                                                      *)
Installed(c) ==
  [version |-> call[c].got, checked |-> call[c].at, verified |-> call[c].from, failed |-> FALSE, invalid |-> FALSE]

Install(c) ==
  /\ call[c].pc = "install"
  /\ cache' = Installed(c)
  /\ Serve(c, call[c].got, FALSE, call[c].from)
  /\ Leave
  /\ UNCHANGED <<clock, db, faults>>

(* cachedOrError: update_time or the table cannot be read, or the rows are *)
(* not valid settings; verifiedAt stays what it was.  A caller that was    *)
(* cancelled marks the snapshot as well; the decision settings then return *)
(* the cancellation.                                                       *)
RefreshError(c) ==
  /\ call[c].pc \in {"check", "list", "install"}
  /\ Fault
  /\ Leave
  /\ \/ /\ cache = NoCache
        /\ Fail(c)
        /\ UNCHANGED cache
     \/ /\ cache # NoCache
        /\ cache' = [cache EXCEPT !.checked = call[c].at, !.failed = TRUE, !.invalid = FALSE]
        /\ Serve(c, cache.version, TRUE, call[c].from) \/ (call[c].section = "decision" /\ Fail(c))
  /\ UNCHANGED <<clock, db>>

(* The caller is cancelled before its refresh: what an update goes on to   *)
(* do fails too.                                                           *)
Cancel(c) ==
  /\ call[c].pc \in {"look", "gate"}
  /\ Fault
  /\ Return(c, NoAnswer)
  /\ UNCHANGED <<clock, db, cache, gate>>

-----------------------------------------------------------------------------
(* Calls                                                                   *)

(* Where a section is read from *)
Source(section) == IF section = "ontology" THEN "table" ELSE "look"

New(section, stage) ==
  [pc |-> Source(section), section |-> section, stage |-> stage,
   at |-> 0, from |-> 0, got |-> 0, wrote |-> 0, changed |-> FALSE]

(* Get...Settings and ...RuntimeConfig *)
Get(c, section) ==
  /\ call[c].pc = "idle"
  /\ call' = [call EXCEPT ![c] = New(section, "read")]
  /\ Silent /\ UNCHANGED <<clock, db, cache, gate, faults>>

(* CachedTelemetryPricingRuntimeConfig: whatever snapshot there is, of any *)
(* age, invalidated or not; a refresh that failed is not told.  What can   *)
(* be asked of the answer is what was verified.                            *)
Peek ==
  /\ cache # NoCache
  /\ answer' = [kind |-> "cached", version |-> cache.version, stale |-> FALSE, asked |-> cache.verified, wrote |-> 0]
  /\ UNCHANGED <<clock, db, cache, gate, call, faults>>

(* Update...Settings: the settings before are read first. *)
Update(c, section) ==
  /\ call[c].pc = "idle"
  /\ db < MaxVersion
  /\ call' = [call EXCEPT ![c] = New(section, "before")]
  /\ Silent /\ UNCHANGED <<clock, db, cache, gate, faults>>

(* GetOntologyMaintenanceSettings *)
Table(c) ==
  /\ call[c].pc = "table"
  /\ \/ Serve(c, db, FALSE, now) /\ UNCHANGED faults
     \/ Fault /\ Return(c, NoAnswer)
  /\ UNCHANGED <<clock, db, cache, gate>>

(* UpdateValues: the values differ from the ones in the table, or do not. *)
Write(c) ==
  /\ call[c].pc = "write"
  /\ db' \in {db, db + 1} /\ db' <= MaxVersion
  /\ call' = [call EXCEPT ![c].pc = "invalidate", ![c].stage = "after",
                          ![c].wrote = db', ![c].changed = (db' # db)]
  /\ Silent /\ UNCHANGED <<clock, cache, gate, faults>>

(* It fails, and was committed or not: nothing is invalidated. *)
WriteError(c) ==
  /\ call[c].pc = "write"
  /\ Fault
  /\ db' \in {db, db + 1} /\ db' <= MaxVersion
  /\ Return(c, NoAnswer)
  /\ UNCHANGED <<clock, cache, gate>>

\* Variant: a refresh under way is not waited for.
InvalidatesAtOnce(c) == TRUE
(* invalidate waits for the gate. *)
MayInvalidate(c) == gate = NoCaller

Invalidated == IF cache = NoCache THEN NoCache ELSE [cache EXCEPT !.invalid = TRUE]

(* A decision update that changed something may then fail to write its     *)
(* audit entry.                                                            *)
Invalidate(c) ==
  /\ call[c].pc = "invalidate" /\ MayInvalidate(c)
  /\ cache' = Invalidated
  /\ \/ /\ call' = [call EXCEPT ![c].pc = Source(call[c].section), ![c].changed = FALSE]
        /\ Silent /\ UNCHANGED faults
     \/ /\ call[c].section = "decision" /\ call[c].changed
        /\ Fault
        /\ Return(c, NoAnswer)
  /\ UNCHANGED <<clock, db, gate>>

-----------------------------------------------------------------------------
(* Another replica updates the table: all that one sees of another. *)
Elsewhere ==
  /\ db < MaxVersion
  /\ db' = db + 1
  /\ Silent /\ UNCHANGED <<clock, cache, gate, call, faults>>

(* The replica ends with its callers and starts without a snapshot. *)
Crash ==
  /\ Fault
  /\ cache' = NoCache
  /\ gate' = NoCaller
  /\ call' = [c \in Caller |-> Idle]
  /\ Silent /\ UNCHANGED <<clock, db>>

ClockTick ==
  /\ now < MaxNow
  /\ now' = now + 1 /\ wall' = wall + 1
  /\ since' = [t \in 0..now' |-> IF t = now' THEN db ELSE since[t]]
  /\ Silent /\ UNCHANGED <<back, db, cache, gate, call, faults>>

(* The clock of the replica is set, forward or back. *)
ClockSet ==
  /\ Fault
  /\ wall' \in 0..MaxNow
  /\ back' = IF wall' < wall THEN back + (wall - wall') ELSE back
  /\ Silent /\ UNCHANGED <<now, since, db, cache, gate, call>>

SettingsNext ==
  \/ \E c \in Caller :
       \/ \E s \in Section : Get(c, s) \/ Update(c, s)
       \/ Look(c) \/ Enter(c) \/ Check(c) \/ Compare(c) \/ List(c) \/ Install(c)
       \/ RefreshError(c) \/ Cancel(c) \/ Table(c) \/ Write(c) \/ WriteError(c) \/ Invalidate(c)
  \/ Peek \/ Elsewhere \/ Crash \/ ClockTick \/ ClockSet

SettingsSpec == SettingsInit /\ [][SettingsNext]_settings

-----------------------------------------------------------------------------
(* Properties                                                              *)

(* Settings that currentCache returns without a refresh error have every   *)
(* update that was in the table an interval before they were asked for, on *)
(* whichever replica and with whatever outcome for its caller the update   *)
(* was made: it counts the interval from before its reads.  By as much as  *)
(* the clock was set back they may be older.  The rate card that telemetry *)
(* reads from the snapshot has no such bound; it has every update that was *)
(* in the table when the snapshot was last verified, also after refreshes  *)
(* that failed and under an invalidation.                                  *)
BoundedStaleness ==
  /\ answer.kind \in Section /\ ~answer.stale =>
       \A t \in DOMAIN since : t + Interval + back <= answer.asked + 1 => answer.version >= since[t]
  /\ answer.kind = "cached" => \A t \in DOMAIN since : t <= answer.asked => answer.version >= since[t]

(* The settings an update returns have its change, however its invalidate  *)
(* met the refreshes of other callers, unless the re-read failed; then a   *)
(* decision update is an error ("decision settings persisted but refresh   *)
(* failed") while the other sections return the old settings as if they    *)
(* were the new ones.                                                      *)
UpdatesShowThemselves ==
  answer # NoAnswer =>
    /\ answer.version >= answer.wrote \/ answer.stale
    /\ answer.kind = "decision" /\ answer.stale => answer.wrote = 0
=============================================================================
