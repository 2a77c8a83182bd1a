-------------------------------- MODULE Tunnel --------------------------------
(***************************************************************************)
(* The VPN tunnel TorrServer lives behind: its configs in the dashboard    *)
(* (cmd/orchestrator/main.go, /api/vpn/configs), the root helper that      *)
(* takes the tunnel down and up (internal/api/privileged.go,               *)
(* vpntorrent/jf-netns-helper), the watchdog (vpntorrent/watchdog.sh), the *)
(* units it restarts, and the port forwarder.                              *)
(*                                                                         *)
(* An activation writes the live config, bounces the tunnel and waits for  *)
(* a handshake; when that fails it puts the old config back and leaves the *)
(* tunnel to the watchdog.  The watchdog bounces a tunnel without a data   *)
(* path, rebuilds the namespace if that was no help, and stops TorrServer  *)
(* while traffic leaves on the host's own address.  Neither knows of the   *)
(* other.                                                                  *)
(*                                                                         *)
(* Abstractions.  A config is its name: the same name is uploaded with the *)
(* same content.  A config works while its server answers; one that does   *)
(* not may still bring up an interface.  The watchdog runs once a minute,  *)
(* here at any time.                                                       *)
(***************************************************************************)
EXTENDS Naturals

CONSTANTS
    Slugs,     \* names of configs
    Handlers,  \* activations served at a time
    none

VARIABLES
    stored,     \* configs in the directory
    live,       \* wg0-vpntorrent.conf, which the helper uses
    active,     \* the marker .active
    tunnel,     \* the config of the interface in the namespace, none: there is none
    answering,  \* configs whose server answers
    leak,       \* the namespace's default route is not the tunnel
    torr,       \* torrserver-netns.service: "up", "stopped"
    status,     \* the status file of the watchdog: "ok", "down", "leak"
    watch,      \* the watchdog: "rest", "bounce", "up", "recheck", "rebuild", "last"
    run         \* activations under way

vars == <<stored, live, active, tunnel, answering, leak, torr, status, watch, run>>
host == <<tunnel, answering, leak, torr, status, watch>>

Idle == [at |-> "idle", slug |-> none, previous |-> none]
Runs == [at : {"idle", "down", "up", "wait", "mark", "restart"}, slug : Slugs \cup {none}, previous : Slugs \cup {none}]

TypeOK ==
    /\ stored \subseteq Slugs
    /\ {live, active, tunnel} \subseteq Slugs \cup {none}
    /\ answering \subseteq Slugs
    /\ leak \in BOOLEAN
    /\ torr \in {"up", "stopped"}
    /\ status \in {"ok", "down", "leak"}
    /\ watch \in {"rest", "bounce", "up", "recheck", "rebuild", "last"}
    /\ run \in [Handlers -> Runs]

Init ==
    /\ stored = {} /\ live = none /\ active = none /\ tunnel = none
    /\ answering \in SUBSET Slugs
    /\ leak = FALSE
    /\ torr = "up" /\ status = "ok" /\ watch = "rest"
    /\ run = [h \in Handlers |-> Idle]

-----------------------------------------------------------------------------
\* The helper.

\* vpn-up: without a live config nothing happens; an interface that is there stays as
\* it is.  The default route is the tunnel again whenever it succeeds.
UpWorks ==
    /\ live # none
    /\ tunnel' = IF tunnel = none THEN live ELSE tunnel
    /\ leak' = FALSE

UpFails ==
    /\ live = none \/ live \notin answering
    /\ UNCHANGED <<tunnel, leak>>

\* vpn-up is killed with the request of a browser that hangs up: it came as far as it
\* came, whatever the config is worth.
UpCutOff ==
    /\ tunnel' \in {tunnel} \cup (IF tunnel = none THEN {live} ELSE {})
    /\ leak' \in {leak, FALSE}

\* vpn-down, which may find that the interface cannot be removed.
Down == tunnel' \in {none, tunnel}

-----------------------------------------------------------------------------
\* Configs.

Upload(s) ==
    /\ stored' = stored \cup {s}
    /\ UNCHANGED <<live, active, run, host>>

\* The active one cannot be deleted.
Remove(s) ==
    /\ s \in stored /\ s # active
    /\ stored' = stored \ {s}
    /\ UNCHANGED <<live, active, run, host>>

Becomes(h, r) == run' = [run EXCEPT ![h] = r]
Goes(h, at) == Becomes(h, [run[h] EXCEPT !.at = at])

\* The live config is replaced; what it was is kept in memory.
Activate(h, s) ==
    /\ run[h] = Idle
    /\ s \in stored
    /\ live' = s
    /\ Becomes(h, [at |-> "down", slug |-> s, previous |-> live])
    /\ UNCHANGED <<stored, active, host>>

TakeDown(h) ==
    /\ run[h].at = "down"
    /\ Down
    /\ Goes(h, "up")
    /\ UNCHANGED <<stored, live, active, answering, leak, torr, status, watch>>

BringUp(h) ==
    /\ run[h].at = "up"
    /\ UpWorks
    /\ Goes(h, "wait")
    /\ UNCHANGED <<stored, live, active, answering, torr, status, watch>>

\* restore, which only concerns the file; there may have been none.
Restored(r) == IF r.previous # none THEN r.previous ELSE live

\* vpn-up fails, there is no handshake in time, or the browser has hung up; the old
\* config is put back, unless that fails as well.
GiveUp(h) ==
    /\ \/ run[h].at = "up" /\ (UpFails \/ UpCutOff)
       \/ run[h].at = "wait" /\ UNCHANGED <<tunnel, leak>>
    /\ live' \in {Restored(run[h]), live}
    /\ Becomes(h, Idle)
    /\ UNCHANGED <<stored, active, answering, torr, status, watch>>

\* WaitVPNHandshake: of whatever config the interface has.
Handshake(h) ==
    /\ run[h].at = "wait"
    /\ tunnel \in answering
    /\ Goes(h, "mark")
    /\ UNCHANGED <<stored, live, active, host>>

\* The marker is written, or that fails.
Mark(h) ==
    /\ run[h].at = "mark"
    /\ active' \in {run[h].slug, active}
    /\ Goes(h, "restart")
    /\ UNCHANGED <<stored, live, host>>

\* RestartUnit; a failure is a warning in the answer.
RestartTorr(h) ==
    /\ run[h].at = "restart"
    /\ torr' \in {"up", torr}
    /\ Becomes(h, Idle)
    /\ UNCHANGED <<stored, live, active, tunnel, answering, leak, status, watch>>

\* The orchestrator ends: what was under way is forgotten.
Stop ==
    /\ \E h \in Handlers : run[h] # Idle
    /\ run' = [h \in Handlers |-> Idle]
    /\ UNCHANGED <<stored, live, active, host>>

-----------------------------------------------------------------------------
\* The watchdog.

\* (mutant: an interface that is there counts as a data path)
ReachesIfThere == tunnel # none \/ leak

\* probe: does anything come back from the internet?
Reaches == tunnel \in answering \/ leak

Outside == UNCHANGED <<stored, live, active, answering, run>>

\* anonymity_ok said no: TorrServer is stopped until resume_after_leak.
StopForLeak ==
    /\ leak
    /\ torr' = "stopped" /\ status' = "leak"
    /\ UNCHANGED <<tunnel, leak>>

\* resume_after_leak, and the status is ok.
Healthy ==
    /\ Reaches /\ ~leak
    /\ torr' = IF status = "leak" THEN "up" ELSE torr
    /\ status' = "ok"
    /\ watch' = "rest"
    /\ UNCHANGED <<tunnel, leak>>

Probe ==
    /\ watch = "rest"
    /\ \/ Healthy
       \/ StopForLeak /\ watch' = "rest"
       \/ ~Reaches /\ status' = "down" /\ watch' = "bounce" /\ UNCHANGED <<tunnel, leak, torr>>
    /\ Outside

Bounce ==
    /\ watch = "bounce"
    /\ Down
    /\ watch' = "up"
    /\ UNCHANGED <<leak, torr, status>> /\ Outside

BounceUp ==
    /\ watch = "up"
    /\ UpWorks \/ UpFails
    /\ watch' = "recheck"
    /\ UNCHANGED <<torr, status>> /\ Outside

Recheck ==
    /\ watch = "recheck"
    /\ \/ Healthy
       \/ StopForLeak /\ watch' = "rebuild"
       \/ ~Reaches /\ watch' = "rebuild" /\ UNCHANGED <<tunnel, leak, torr, status>>
    /\ Outside

\* The namespace is deleted and set up anew, with vpn-up at its end; TorrServer is
\* stopped before and started after.
Rebuild ==
    /\ watch = "rebuild"
    /\ leak' = FALSE
    /\ tunnel' \in {live} \cup (IF live \in answering THEN {} ELSE {none})
    /\ torr' = "up"
    /\ watch' = "last"
    /\ UNCHANGED status /\ Outside

LastCheck ==
    /\ watch = "last"
    /\ \/ Healthy
       \/ leak /\ torr' = "stopped" /\ status' = "down" /\ watch' = "rest" /\ UNCHANGED <<tunnel, leak>>
       \/ ~Reaches /\ status' = "down" /\ watch' = "rest" /\ UNCHANGED <<tunnel, leak, torr>>
    /\ Outside

Watch == Probe \/ Bounce \/ BounceUp \/ Recheck \/ Rebuild \/ LastCheck

-----------------------------------------------------------------------------
\* The world.

\* A server stops to answer, or answers again.
ServerChanges(s) ==
    /\ answering' = IF s \in answering THEN answering \ {s} ELSE answering \cup {s}
    /\ UNCHANGED <<stored, live, active, run, tunnel, leak, torr, status, watch>>

\* Somebody replaces the default route of the namespace, or puts it back.
RouteChanges ==
    /\ leak' = ~leak
    /\ leak \/ tunnel # none
    /\ UNCHANGED <<stored, live, active, run, tunnel, answering, torr, status, watch>>

\* portforward.sh: a new port means a restart of TorrServer, whoever stopped it.
PortChanges ==
    /\ torr = "stopped"
    /\ torr' = "up"
    /\ UNCHANGED <<stored, live, active, run, tunnel, answering, leak, status, watch>>

Handle(h) == TakeDown(h) \/ BringUp(h) \/ GiveUp(h) \/ Handshake(h) \/ Mark(h) \/ RestartTorr(h)

Next ==
    \/ \E s \in Slugs : Upload(s) \/ Remove(s) \/ ServerChanges(s) \/ \E h \in Handlers : Activate(h, s)
    \/ \E h \in Handlers : Handle(h)
    \/ Watch
    \/ Stop \/ RouteChanges \/ PortChanges

Spec == Init /\ [][Next]_vars

\* The watchdog's timer fires and every call of a handler has a timeout.
Fairness == WF_vars(Watch) /\ \A h \in Handlers : WF_vars(Handle(h))

FairSpec == Spec /\ Fairness

-----------------------------------------------------------------------------

Quiet == \A h \in Handlers : run[h] = Idle

\* However activations failed, overlapped or were cut off in the middle, and whatever
\* else took the tunnel down: a live config that works ends in a tunnel that works.
\* And TorrServer is stopped while its traffic leaves on the host's own address, again
\* and again if others start it.
WatchdogHeals ==
    /\ <>[](Quiet /\ ~leak /\ live \in answering) => []<>(tunnel \in answering)
    /\ <>[](Quiet /\ leak) => []<>(torr = "stopped")

\* Stopped for a leak, TorrServer is started once all is well (watchdog.sh: "once the
\* tunnel is genuinely anonymous again the stack comes back on its own").
ComesBackAfterLeak == <>[](Quiet /\ ~leak /\ tunnel \in answering) => <>[](torr = "up")
=============================================================================
