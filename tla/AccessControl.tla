---------------------------- MODULE AccessControl ----------------------------
(***************************************************************************)
(* The login allowlist of a worker (class AccessControl of                 *)
(* proxy/common.js): a file that is looked at once per Refresh, and again  *)
(* when a login is not in it, and read only if its signature changed.      *)
(*                                                                         *)
(* One wallet and password: the file lists them, does not list them, or is *)
(* unreadable (half written, missing, no JSON object).  Another process    *)
(* writes it at any time, between the worker's look at the signature and   *)
(* its reading too.  Every change gives the file a signature (modification *)
(* time and size) it never had.  Within a worker logins come one by one.   *)
(***************************************************************************)
EXTENDS Integers

CONSTANTS
    Refresh,    \* ACCESS_CONTROL_REFRESH_MS, in ticks of the clock
    MaxClock,   \* bound: ticks of the clock
    MaxChanges  \* bound: changes of the file

ASSUME AccessAssumption == Refresh \in Nat \ {0}

VARIABLES
    clock,          \* Date.now(), which does not go back
    content,        \* what the file holds
    signature,      \* the file's signature
    entries,        \* the worker's entries list the login
    fileSignature,  \* signature the entries were read under, 0 for null
    lastLoadedAt,   \* when the file was looked at last
    step,           \* how far the login that is being checked has come
    seen,           \* the signature this login has looked up
    start,          \* history: when the login came
    gap,            \* history: the file did not list it at some time since
    lastGrant,      \* history: when the file last listed it or was unreadable
    verdict         \* history: the answer to the last login

accessVars == <<clock, content, signature, entries, fileSignature, lastLoadedAt, step, seen,
               start, gap, lastGrant, verdict>>
fileVars == <<content, signature>>
cacheVars == <<entries, fileSignature, lastLoadedAt>>

Contents == {"listed", "unlisted", "unreadable"}

AccessTypeOK ==
    /\ clock \in Nat \ {0}
    /\ content \in Contents
    /\ signature \in Nat \ {0}
    /\ entries \in BOOLEAN
    /\ fileSignature \in Nat
    /\ lastLoadedAt \in Nat
    /\ step \in {"idle", "stat", "read", "missStat", "missRead"}
    /\ seen \in Nat
    /\ start \in Nat
    /\ gap \in BOOLEAN
    /\ lastGrant \in Nat
    /\ verdict \in {"none", "admitted", "refused"}

\* A worker that has loaded nothing yet; the clock is far from 0.
AccessInit ==
    /\ clock = Refresh
    /\ content \in Contents
    /\ signature = 1
    /\ entries = FALSE
    /\ fileSignature = 0
    /\ lastLoadedAt = 0
    /\ step = "idle"
    /\ seen = 0
    /\ start = 0
    /\ gap = FALSE
    /\ lastGrant = IF content = "unlisted" THEN 0 ELSE Refresh
    /\ verdict = "none"

-----------------------------------------------------------------------------
(* The rest of the system.                                                  *)

ClockTick ==
    /\ clock < MaxClock
    /\ clock' = clock + 1
    /\ lastGrant' = IF content = "unlisted" THEN lastGrant ELSE clock'
    /\ UNCHANGED <<content, signature, entries, fileSignature, lastLoadedAt, step, seen, start, gap, verdict>>

\* Another process writes the file.
Change ==
    /\ signature <= MaxChanges
    /\ content' \in Contents
    /\ signature' = signature + 1
    /\ gap' = (gap \/ content' # "listed")
    /\ lastGrant' = IF content' = "unlisted" THEN lastGrant ELSE clock
    /\ UNCHANGED <<clock, entries, fileSignature, lastLoadedAt, step, seen, start, verdict>>

-----------------------------------------------------------------------------
(* A login.                                                                 *)

Answer(v) ==
    /\ step' = "idle"
    /\ verdict' = v

\* hasMatch, the first time: a miss looks at the file once more.
Decide(listed) ==
    IF listed THEN Answer("admitted")
    ELSE /\ step' = "missStat"
         /\ UNCHANGED verdict

\* MUTANT: every login puts the next look at the file off.
SkipAccessReloadSliding ==
    /\ clock - lastLoadedAt < Refresh
    /\ lastLoadedAt' = clock
    /\ Decide(entries)

\* skipAccessReload: the entries are young enough.
SkipAccessReload ==
    /\ clock - lastLoadedAt < Refresh
    /\ Decide(entries)
    /\ UNCHANGED lastLoadedAt

\* isAllowed, up to the first look at the file.
Login ==
    /\ step = "idle"
    /\ start' = clock
    /\ gap' = (content # "listed")
    /\ \/ SkipAccessReload
       \/ /\ clock - lastLoadedAt >= Refresh
          /\ lastLoadedAt' = clock
          /\ step' = "stat"
          /\ UNCHANGED verdict
    /\ UNCHANGED <<clock, content, signature, entries, fileSignature, seen, lastGrant>>

\* reloadIfNeeded looks at the signature; a missing file is found missing by Read.
Stat ==
    /\ step = "stat"
    /\ seen' = signature
    /\ IF signature = fileSignature THEN Decide(entries)
       ELSE /\ step' = "read"
            /\ UNCHANGED verdict
    /\ UNCHANGED <<clock, fileVars, cacheVars, start, gap, lastGrant>>

\* loadEntries: entries that are not replaced by an unreadable file stay.
LoadEntries(loadedAt) ==
    /\ entries' = (content = "listed")
    /\ fileSignature' = seen
    /\ lastLoadedAt' = loadedAt

\* reloadIfNeeded reads the file; an error refuses this login (isAllowedLogin).
Read ==
    /\ step = "read"
    /\ IF content = "unreadable"
       THEN /\ Answer("refused")
            /\ UNCHANGED cacheVars
       ELSE /\ LoadEntries(start)
            /\ Decide(content = "listed")
    /\ UNCHANGED <<clock, fileVars, seen, start, gap, lastGrant>>

\* MUTANT: a miss looks at the file no more often than anybody.
MissStatRarely ==
    /\ step = "missStat"
    /\ seen' = signature
    /\ IF signature = fileSignature \/ clock - lastLoadedAt < Refresh THEN Answer("refused")
       ELSE /\ step' = "missRead"
            /\ UNCHANGED verdict
    /\ UNCHANGED <<clock, fileVars, cacheVars, start, gap, lastGrant>>

\* reloadIfChangedAfterMiss looks at the signature.
MissStat ==
    /\ step = "missStat"
    /\ seen' = signature
    /\ IF signature = fileSignature THEN Answer("refused")
       ELSE /\ step' = "missRead"
            /\ UNCHANGED verdict
    /\ UNCHANGED <<clock, fileVars, cacheVars, start, gap, lastGrant>>

\* reloadIfChangedAfterMiss reads the file, and hasMatch decides.
MissRead ==
    /\ step = "missRead"
    /\ IF content = "unreadable" THEN UNCHANGED cacheVars ELSE LoadEntries(clock)
    /\ Answer(IF content = "listed" THEN "admitted" ELSE "refused")
    /\ UNCHANGED <<clock, fileVars, seen, start, gap, lastGrant>>

AccessNext == ClockTick \/ Change \/ Login \/ Stat \/ Read \/ MissStat \/ MissRead

AccessSpec == AccessInit /\ [][AccessNext]_accessVars

-----------------------------------------------------------------------------
(* Properties.                                                              *)

\* This step answers a login: no step of the clock or the file.
Answered == step' = "idle" /\ UNCHANGED <<clock, signature>>

\* A login whose entry was taken out of the file is refused when it comes Refresh or
\* later after that: through logins that keep the cache busy, a file caught half
\* written, and a change between the look at the signature and the reading.
RevokedInTime ==
    [][Answered /\ verdict' = "admitted" => start' - lastGrant < Refresh]_accessVars

\* A login that the file lists from its arrival to its answer is admitted, however
\* old the worker's entries are and whatever was read before.
AdmittedAtOnce ==
    [][Answered /\ verdict' = "refused" => gap']_accessVars
=============================================================================
