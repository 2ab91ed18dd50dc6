---------------------------- MODULE ServerLaunch ----------------------------
(***************************************************************************)
(* How an MCP server is started (supervise.rs, config.rs): the host's      *)
(* roster with its cooldowns, the configuration, the pinned binary, the    *)
(* credentials with their helper processes, the spawn.  The host asks the  *)
(* roster before and tells it after; the files a program name leads to,    *)
(* the helpers and the clock are external and move between any two steps.  *)
(* A file is a node with its bytes, and a digest is the bytes it is of.    *)
(***************************************************************************)
EXTENDS Verdicts

CONSTANTS Servers, ServerConfigs,
          MaxServers,                    \* MAX_HOST_SERVERS
          Base, Cap, MaxShift,           \* of the cooldown
          LastMs, MaxFailures,           \* the ends of the clock and of the count
          Dirs, Nodes, Disks,            \* places of PATH in order; node -> its file; links it may start with
          MaxBinary,                     \* MAX_PINNED_BINARY_BYTES
          Malformed, MaxArgs, MaxRefs, MaxTimeout, MaxAllow,
          Environment                    \* variable -> {} or {its value}

RefsOf(c) == {c.refs[i] : i \in DOMAIN c.refs}

(* The shifted wait has reached the cap where the shift stops. *)
ASSUME ServerAssumption ==
    /\ Base \in Nat /\ Cap \in Nat /\ MaxShift \in Nat /\ Base * 2^MaxShift >= Cap
    /\ \A k \in 0..MaxShift + MaxFailures : 2^k \in Nat    \* powers are none of the provers' arithmetic
    /\ LastMs \in Nat /\ MaxFailures \in Nat /\ MaxBinary \in Nat
    /\ Dirs \subseteq Nat /\ Disks \subseteq [Dirs -> DOMAIN Nodes]
    /\ Nodes \in [DOMAIN Nodes -> [kind : {"absent", "regular", "fifo"}, bytes : Seq(Nat), runs : BOOLEAN]]
    /\ \A c \in ServerConfigs : c.refs \in Seq(RefsOf(c))

VARIABLES roster,            \* registered server -> its cooldown
          ms,                \* the host's clock
          links, nodes,      \* dir -> node, node -> its file
          attempt,           \* {} or the spawn under way
          helper,            \* the helper process of the attempt
          server,            \* {} or the child just spawned
          lapses             \* history: server -> failures since a success, and the last one's time

launchVars == <<roster, ms, links, nodes, attempt, helper, server, lapses>>

NoHelper == [alive |-> FALSE, out |-> "none", ended |-> "none", late |-> FALSE, lost |-> FALSE]

LaunchInit ==
    /\ roster = <<>> /\ ms = 0 /\ links \in Disks /\ nodes = Nodes
    /\ attempt = {} /\ helper = NoHelper /\ server = {} /\ lapses = [s \in Servers |-> [count |-> 0, last |-> 0]]

-----------------------------------------------------------------------------
Fresh == [failures |-> 0, notBefore |-> 0]

(* register: known ids stay as they are, a full roster refuses. *)
RegisterServer(s) ==
    /\ s \notin DOMAIN roster /\ Cardinality(DOMAIN roster) < MaxServers
    /\ roster' = [id \in DOMAIN roster \cup {s} |-> IF id = s THEN Fresh ELSE roster[id]]
    /\ UNCHANGED <<ms, links, nodes, attempt, helper, server, lapses>>

(* may_connect: an id the roster does not know is an error. *)
MayConnect(s) == s \in DOMAIN roster /\ ms >= roster[s].notBefore

Backoff(failures) == Min({Base * 2^Min({failures, MaxShift}), Cap})

RecordFailure(cooldown) ==
    [failures |-> Min({cooldown.failures + 1, MaxFailures}), notBefore |-> Min({ms + Backoff(cooldown.failures), LastMs})]

-----------------------------------------------------------------------------
IsServerId(id) == id \notin Malformed

ValidateProgram(program) == program \notin Malformed

(* A pin of any other length or alphabet stands as the empty one. *)
IsSha256Pin(pin) == pin # <<>>

ValidateRef(r) == r.name \notin Malformed /\ (r.kind = "cmd" => ValidateProgram(r.program) /\ r.args \in 0..MaxArgs)

IsAllowlistEntry(entry) == entry \notin Malformed

(* validate: any violated bound refuses the configuration. *)
ValidateConfig(c) ==
    /\ IsServerId(c.id) /\ ValidateProgram(c.command) /\ \A pin \in c.pin : IsSha256Pin(pin)
    /\ c.args \in 0..MaxArgs
    /\ Len(c.refs) <= MaxRefs /\ \A i \in DOMAIN c.refs : ValidateRef(c.refs[i])
    /\ c.cwd \notin Malformed
    /\ c.timeout \in 1..MaxTimeout
    /\ c.allow # {} /\ Cardinality(c.allow) <= MaxAllow /\ \A e \in c.allow : IsAllowlistEntry(e)

-----------------------------------------------------------------------------
Here(d) == nodes[links[d]]

First(places) == IF places = {} THEN {} ELSE {Min(places)}

(* resolve_program_path: the first regular file of that name; else the bare
   name, which leads nowhere. *)
ResolveProgramPath == First({d \in Dirs : Here(d).kind = "regular"})

Lapsed(s) == [lapses EXCEPT ![s] = [count |-> Min({@.count + 1, MaxFailures + 1}), last |-> ms]]

(* The attempt failed, and the host records it. *)
GiveUp(a) ==
    /\ attempt' = {}
    /\ roster' = [roster EXCEPT ![a.config.id] = RecordFailure(@)] /\ lapses' = Lapsed(a.config.id)
    /\ UNCHANGED <<ms, links, nodes>>

Proceed(a) == attempt' = {a} /\ UNCHANGED <<roster, ms, links, nodes, lapses>>

(* spawn_server, up to the pin: no pin, no look at the file. *)
BeginLaunch(c) ==
    LET a == [config |-> c, stage |-> IF c.pin = {} THEN "creds" ELSE "stat", path |-> IF c.pin = {} THEN {} ELSE ResolveProgramPath,
              handle |-> {}, hashed |-> <<>>, left |-> c.refs, pairs |-> {}, touched |-> FALSE]
    IN  /\ attempt = {} /\ MayConnect(c.id)
        /\ IF ValidateConfig(c) THEN Proceed(a) ELSE GiveUp(a)
        /\ helper' = NoHelper /\ server' = {}

(* hash_command_binary: what is at the path must be a regular file within
   bounds before it is opened, and so must what was opened. *)
Hashable(node) == nodes[node].kind = "regular" /\ Len(nodes[node].bytes) <= MaxBinary

StatPinned ==
    /\ \E a \in attempt :
         /\ a.stage = "stat"
         /\ IF \E d \in a.path : Hashable(links[d]) THEN Proceed([a EXCEPT !.stage = "open"]) ELSE GiveUp(a)
    /\ UNCHANGED <<helper, server>>

OpenPinned ==
    /\ \E a \in attempt :
         /\ a.stage = "open"
         /\ IF \E d \in a.path : Hashable(links[d])
            THEN Proceed([a EXCEPT !.stage = "hash", !.handle = {links[d] : d \in a.path}]) ELSE GiveUp(a)
    /\ UNCHANGED <<helper, server>>

(* One read of the loop, {} at the end of the file. *)
Streamed(a, bytes) == IF Len(a.hashed) < Len(bytes) THEN {Append(a.hashed, bytes[Len(a.hashed) + 1])} ELSE {}

(* The stream grows past the bound, goes on, or ends and is compared. *)
HashPinned ==
    /\ \E a \in attempt : \E node \in a.handle :
         /\ a.stage = "hash"
         /\ LET read == Streamed(a, nodes[node].bytes) IN
            IF \E h \in read : Len(h) > MaxBinary THEN GiveUp(a)
            ELSE IF read # {} THEN \E h \in read : Proceed([a EXCEPT !.hashed = h])
            ELSE IF a.config.pin = {a.hashed} THEN Proceed([a EXCEPT !.stage = "creds"]) ELSE GiveUp(a)
    /\ UNCHANGED <<helper, server>>

-----------------------------------------------------------------------------
Paired(a, value, from) ==
    LET name == Head(a.left).name IN
    [a EXCEPT !.stage = "creds", !.left = Tail(@),
              !.pairs = {p \in @ : p.name # name} \cup {[name |-> name, value |-> value, from |-> from]}]

(* resolve_env_refs, the next reference: a variable of the host, or a helper,
   which may not even start. *)
NextRef ==
    \E a \in attempt :
        /\ a.stage = "creds" /\ a.left # <<>> /\ UNCHANGED server
        /\ IF Head(a.left).kind = "env"
           THEN /\ UNCHANGED helper
                /\ LET value == Environment[Head(a.left).name] \ {""} IN
                   IF value = {} THEN GiveUp(a) ELSE \E v \in value : Proceed(Paired(a, v, {}))
           ELSE \/ Proceed([a EXCEPT !.stage = "helper"]) /\ helper' = [NoHelper EXCEPT !.alive = TRUE]
                \/ GiveUp(a) /\ UNCHANGED helper

(* External: the helper's output ends, it exits, its time is up. *)
HelperStep ==
    /\ \E a \in attempt : a.stage = "helper"
    /\ \/ \E kind \in {"value", "line", "empty", "nul", "bytes", "oversize", "unread"} :
            helper.out = "none" /\ helper' = [helper EXCEPT !.out = kind]
       \/ \E how \in {"success", "failure"} :
            helper.alive /\ helper' = [helper EXCEPT !.ended = how, !.alive = FALSE]
       \/ ~helper.late /\ helper' = [helper EXCEPT !.late = TRUE]
    /\ UNCHANGED <<roster, ms, links, nodes, attempt, server, lapses>>

(* An iteration of the loop: what was drained is judged first, then with the
   exit status what it holds, then the deadline. *)
HelperVerdict ==
    Verdict(<< <<helper.out = "unread" \/ helper.out = "oversize", "kill">>,
               <<helper.out # "none" /\ helper.ended = "failure", "refuse">>,
               <<helper.out \in {"nul", "bytes", "empty"} /\ helper.ended = "success", "refuse">>,
               <<helper.out # "none" /\ helper.ended = "success", "take">>,
               <<helper.late, "kill">> >>)

(* run_credential_cmd: the trimmed output, or no value.  When the wait itself
   fails the helper is left as it is. *)
PollHelper ==
    \E a \in attempt :
        /\ a.stage = "helper" /\ UNCHANGED server
        /\ \/ /\ HelperVerdict = "take"
              /\ Proceed(Paired(a, "v", {helper})) /\ UNCHANGED helper
           \/ /\ HelperVerdict = "refuse" /\ GiveUp(a) /\ UNCHANGED helper
           \/ /\ HelperVerdict = "kill" /\ GiveUp(a) /\ helper' = [helper EXCEPT !.alive = FALSE]
           \/ /\ helper.ended = "none" /\ GiveUp(a) /\ helper' = [helper EXCEPT !.lost = TRUE]

-----------------------------------------------------------------------------
(* External: the system finds a bare name by itself. *)
SystemLookup == First({d \in Dirs : Here(d).kind = "regular" /\ Here(d).runs})

\* Mutant: the verified name is looked up again.
ProgramLookedUp(a) == SystemLookup

(* A pin spawns exactly the path that was verified. *)
Program(a) == IF a.config.pin = {} THEN SystemLookup ELSE a.path

(* The spawn, which the system may refuse whatever the program is. *)
SpawnChild ==
    /\ \E a \in attempt :
         /\ a.stage = "creds" /\ a.left = <<>>
         /\ \/ \E d \in Program(a) :
                 /\ Here(d).kind = "regular" /\ Here(d).runs
                 /\ server' = {[config |-> a.config, bytes |-> Here(d).bytes, hashed |-> a.hashed, path |-> d,
                                verified |-> a.path, pairs |-> a.pairs, touched |-> a.touched]}
                 /\ attempt' = {} /\ roster' = [roster EXCEPT ![a.config.id] = Fresh]
                 /\ lapses' = [lapses EXCEPT ![a.config.id] = [count |-> 0, last |-> 0]]
                 /\ UNCHANGED <<ms, links, nodes>>
            \/ GiveUp(a) /\ UNCHANGED server
    /\ UNCHANGED helper

Touched == {[a EXCEPT !.touched = TRUE] : a \in attempt}

(* External: names lead elsewhere, a file is written to, once. *)
Relink ==
    /\ attempt # {} /\ (\A a \in attempt : ~a.touched)
    /\ links' \in Disks /\ attempt' = Touched
    /\ UNCHANGED <<roster, ms, nodes, helper, server, lapses>>

Rewrite(node, byte) ==
    /\ attempt # {} /\ nodes = Nodes /\ nodes[node].kind = "regular"
    /\ nodes' = [nodes EXCEPT ![node].bytes = Append(@, byte)] /\ attempt' = Touched
    /\ UNCHANGED <<roster, ms, links, helper, server, lapses>>

TickMs == ms < LastMs /\ ms' = ms + 1 /\ UNCHANGED <<roster, links, nodes, attempt, helper, server, lapses>>

LaunchNext ==
    \/ \E s \in Servers : RegisterServer(s)
    \/ \E c \in ServerConfigs : BeginLaunch(c)
    \/ StatPinned \/ OpenPinned \/ HashPinned \/ NextRef \/ HelperStep \/ PollHelper \/ SpawnChild \/ TickMs
    \/ Relink \/ \E node \in DOMAIN Nodes : Rewrite(node, 1)

LaunchSpec == LaunchInit /\ [][LaunchNext]_launchVars

-----------------------------------------------------------------------------
(* A pinned server is the file that was hashed, whole and within its bound, to
   its pin, wherever PATH leads: unless a file changed under the launch, its
   bytes are the pinned ones.  It has a value for every credential, set by the
   host or printed whole by a helper that ended well, as configured, and no
   helper outlives its attempt unless waiting for it failed.  A server that
   failed n times in a row is left alone for the doubled wait, never for more
   than the cap. *)
LaunchExact ==
    /\ \A s \in server :
         /\ \A pin \in s.config.pin : /\ s.hashed = pin /\ Len(pin) <= MaxBinary /\ s.verified = {s.path}
                                      /\ s.touched \/ s.bytes = pin
         /\ {p.name : p \in s.pairs} = {r.name : r \in RefsOf(s.config)}
         /\ \A p \in s.pairs : \E r \in RefsOf(s.config) :
              /\ r.name = p.name
              /\ IF r.kind = "env" THEN p.value \in Environment[r.name] \ {""}
                 ELSE \E h \in p.from : h.ended = "success" /\ h.out \in {"value", "line"}
    /\ helper.alive => helper.lost \/ \E a \in attempt : a.stage = "helper"
    /\ \A s \in DOMAIN roster :
         LET n == lapses[s].count
             last == lapses[s].last
         IN  IF n = 0 THEN roster[s].notBefore = 0
             ELSE /\ roster[s].notBefore >= Min({last + Min({Base * 2^(n - 1), Cap}), LastMs})
                  /\ roster[s].notBefore <= last + Cap
=============================================================================
