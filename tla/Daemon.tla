------------------------------- MODULE Daemon --------------------------------
(***************************************************************************)
(* What the daemon serves and guards from the files of a home: the boot             *)
(* (boot.rs), the PreToolUse hooks (hooks.rs), the tool sources (internal.rs,       *)
(* skills.rs, connector.rs) and the credentials they read (secrets.rs), the commands  *)
(* that edit those files while the daemon runs (main.rs of botroster-cli), and the    *)
(* record of what each session did (record.rs).  The policy and the guest's answers   *)
(* are in Policy and Hub: a call here is one the policy lets through.                 *)
(***************************************************************************)
EXTENDS Sources

CONSTANTS
    Calls, Ask,         \* Ask[c]: [tool, owner, direct, skill, args, large, key, edit]: key is <<Bot, session>>, or None
    Edits, Edit,        \* Edit[e]: [file, op, name, value, verify, hub]
    Hook,               \* Hook[h]: [matches, answers, open]
    Wants, Tool,        \* Wants[v]: the credential the remote of connector v takes; Tool[v]: the tool it has
    GuestTools, BotTools,
    GuestSide, BotSide, SkillSide, StoreSide,   \* who serves what no connector serves
    Torn,               \* what is no file of ours
    Mixes,              \* [calls, edits, hooks, remotes, start, shelf, bad, budget]
    None

\* An edit names the inode it may make, which is none of those there at first; arguments are finite.
ASSUME DaemonAssumption ==
    /\ {"secrets", "connectors", None} \cap Edits = {} /\ None \notin {"secrets", "connectors"}
    /\ \A c \in Calls : IsFiniteSet(ToSet(Ask[c].args))
    /\ \A m \in Mixes : m.calls \subseteq Calls /\ m.edits \subseteq Edits
                       /\ DOMAIN m.start = {"secrets", "connectors"}
                       /\ \A k \in DOMAIN m.shelf : m.shelf[k] \in {"none", "half", "whole"}

VARIABLES
    mix,        \* the mix of this behaviour
    budget,     \* mishaps left
    hub,        \* [pc, boot, ids, heard, waits]
    remote,     \* remote[v]: "up", "down" or "slow"
    call,       \* every call
    at, temp,   \* the inode of each file, and of its .json.tmp
    data,       \* what is in each inode: a map, or Torn
    kept,       \* ghost: each file with every edit that came through applied
    clashed,    \* ghost: files two editors were in at once
    edit,       \* every edit
    shelf,      \* each skill's SKILL.md: "none", "half" or "whole"
    writer,     \* the record's writer: [queue, doing, count, sent]
    file,       \* file[k]: the lines of a session's record
    dropped     \* ghost: the calls whose line could not be appended

recordVars == <<writer, file, dropped>>
homeVars   == <<at, temp, data, kept, clashed, shelf>>
vars == <<mix, budget, hub, remote, call, homeVars, edit, recordVars>>

Files  == {"secrets", "connectors"}
Keys   == {Ask[c].key : c \in Calls} \ {None}
Skills == DOMAIN shelf
NoMap  == <<>>

Quiet == [pc |-> "idle", name |-> <<>>, heard |-> <<>>, header |-> None, to |-> None, ready |-> FALSE, end |-> "none", boot |-> 0]
Still == [pc |-> "idle", map |-> NoMap, ino |-> None, told |-> "nothing"]

Init ==
    /\ mix \in Mixes
    /\ budget = mix.budget
    /\ hub = [pc |-> "down", boot |-> 0, ids |-> NoMap, heard |-> {}, waits |-> {}]
    /\ remote = mix.remotes
    /\ call = [c \in mix.calls |-> Quiet]
    /\ at = [f \in Files |-> f] /\ temp = [f \in Files |-> None]
    /\ data = [i \in Files \cup mix.edits |-> IF i \in Files THEN mix.start[i] ELSE Torn]
    /\ kept = mix.start /\ clashed = {}
    /\ edit = [e \in mix.edits |-> Still]
    /\ shelf = mix.shelf
    /\ writer = [queue |-> <<>>, doing |-> {}, count |-> [k \in Keys |-> 0], sent |-> 0]
    /\ file = [k \in Keys |-> <<>>] /\ dropped = {}

Spend(what) ==
    /\ what \in DOMAIN budget /\ budget[what] > 0
    /\ budget' = [budget EXCEPT ![what] = @ - 1]

Read(f)      == data[at[f]]
Holds(f, n)  == Read(f) # Torn /\ n \in DOMAIN Read(f)
\* The world changed under the calls that are on their way: what they may expect is off.
Shaken       == [c \in mix.calls |-> [call[c] EXCEPT !.ready = FALSE]]

-----------------------------------------------------------------------------
(* The record: SessionLog, ToBotStore.                                        *)

\* Only what worked is worth a line.
Successes(c, how) == Ask[c].key # None /\ how = "ok"

\* Every ending of a call of a Bot here, except a credential that was not supplied or not stored, and a
\* call for the guest that could not be routed: its session is gone or somebody else's by then, no
\* guest is bound to it, or a person has taken the computer over.
Noted(c, how) == Ask[c].key # None /\ how \notin {"unstored", "unrouted"}

Note(c, how) ==
    IF ~Noted(c, how) THEN UNCHANGED writer
    ELSE writer' = [writer EXCEPT
            !.queue = Append(@, [call |-> c, args |-> Capture(Ask[c].args), how |-> how, nth |-> writer.sent + 1]),
            !.sent = @ + 1]

\* One write at a time.
MayTake == writer.queue # <<>> /\ writer.doing = {}

Line(draft) == [call |-> draft.call, args |-> draft.args, how |-> draft.how, nth |-> draft.nth,
                seq |-> writer.count[Ask[draft.call].key] + 1, boot |-> hub.boot, form |-> "line"]

Take ==
    /\ MayTake
    /\ writer' = [writer EXCEPT !.queue = Tail(@), !.doing = @ \cup {Line(writer.queue[1])},
                                !.count[Ask[writer.queue[1].call].key] = @ + 1]
    /\ UNCHANGED <<file, dropped>>

Lands(line) == file' = [file EXCEPT ![Ask[line.call].key] = Append(@, line)]

\* What there may be of a line that was not finished: nothing, half of it, or all but its end.
Breaks(line) == UNCHANGED file \/ \E form \in {"half", "bare"} : Lands([line EXCEPT !.form = form])

Write ==
    \E line \in writer.doing :
        Lands(line) /\ writer' = [writer EXCEPT !.doing = @ \ {line}] /\ UNCHANGED dropped

\* What has no end of line is one line with what is behind it; and what cannot be parsed is skipped.
Cut(line)        == line.form # "line"
Spoilt(lines, i) == i > 1 /\ Cut(lines[i - 1])
Readable(lines, i) ==
    lines[i].form # "half" /\ ~Spoilt(lines, i) /\ ~(i < Len(lines) /\ Cut(lines[i]))

Records == (Take \/ Write) /\ UNCHANGED <<mix, budget, hub, remote, call, homeVars, edit>>

-----------------------------------------------------------------------------
(* The hooks: Hooks::check, run_one.                                          *)

\* The hooks that match a tool, in the order of the file.
HooksFor(hooks, name) == SelectSeq(hooks, LAMBDA h : Glob(Hook[h].matches, name))

Matching(c) == HooksFor(mix.hooks, call[c].name)

\* A hook that hangs is waited for.
NoTimeout(h) == Hook[h].answers \ {"hangs"}

\* What a hook comes to; one that hangs is given up (and killed) at its deadline.  "blocks" is a hook
\* that neither reads what it is asked nor ends.
Answers(h) == Hook[h].answers

\* The question is written before the deadline begins to run: what the pipe cannot hold waits for a reader.
Stuck(c, answer) == answer = "blocks" /\ Ask[c].large

Objects(h, answer) == answer = "deny" \/ (answer \in {"fails", "hangs", "blocks"} /\ ~Hook[h].open)

\* An approval is an answer, and ends the chain.
ApprovalEnds(c) == Len(call[c].heard) = Len(Matching(c)) \/ "approve" \in ToSet(call[c].heard)

\* No hook's answer lets a call past the hooks behind it.
Enough(c) == Len(call[c].heard) = Len(Matching(c))

Ended(c, how) == [call EXCEPT ![c].pc = "ended", ![c].end = how]
Ends(c, how)  == call' = Ended(c, how) /\ Note(c, how)

AskHook(c) ==
    /\ call[c].pc = "hooks" /\ ~Enough(c)
    /\ LET h == Matching(c)[Len(call[c].heard) + 1]
       IN \E answer \in Answers(h) :
            IF Stuck(c, answer) THEN call' = [call EXCEPT ![c].pc = "blocked"] /\ UNCHANGED writer
            ELSE IF Objects(h, answer) THEN Ends(c, "refused")
            ELSE /\ call' = [call EXCEPT ![c].heard = Append(@, answer)]
                 /\ UNCHANGED writer

-----------------------------------------------------------------------------
(* The sources: Composite, Skills, ConnectorTools.                            *)

SecretRequest == <<"secret", ".", "request">>
SkillTools    == {<<"skill", ".", "list">>, <<"skill", ".", "read">>}
OwnTools      == GuestTools \cup BotTools \cup {SecretRequest} \cup SkillTools

\* Who serves what no connector serves, and what it serves.
Sides      == {GuestSide, BotSide, StoreSide, SkillSide}
Serving(x) == CASE x = GuestSide -> GuestTools
                [] x = BotSide   -> BotTools
                [] x = StoreSide -> {SecretRequest}
                [] x = SkillSide -> SkillTools

\* A tool of the daemon's is in a namespace no connector may take, "skill" apart, and no two of them
\* escape to one name; a connector's is behind its id; a call is for a tool of the owner it names.
Spaced(name, spaces) ==
    \E dot \in 2 .. Len(name) - 1 : /\ name[dot] = "." /\ \A i \in 1 .. dot - 1 : name[i] # "."
                                    /\ SubSeq(name, 1, dot - 1) \in spaces
                                    /\ name[dot - 1] # "_" /\ name[dot + 1] \notin {"_", "."}
ASSUME NamesAssumption ==
    /\ IsInjective(<<GuestSide, BotSide, StoreSide, SkillSide>>) /\ (Sides \cup {None}) \cap DOMAIN Wants = {}
    /\ None \notin Sides /\ IsFiniteSet(OwnTools) /\ IsFiniteSet(DOMAIN Wants)
    /\ \A one, two \in Sides : one # two => Serving(one) \cap Serving(two) = {}
    /\ \A name \in OwnTools : /\ name \in Seq(STRING) /\ Cuts(name) = {}
                              /\ Spaced(name, Reserved \cup (IF name \in SkillTools THEN {<<"skill">>} ELSE {}))
    /\ \A name, other \in OwnTools : Sanitize(name) = Sanitize(other) => name = other
    /\ \A v \in DOMAIN Wants : v \in Seq(STRING) /\ Tool[v] \in Seq(STRING)
    /\ \A c \in Calls : \/ Ask[c].owner \in Sides /\ Ask[c].tool \in Serving(Ask[c].owner)
                        \/ /\ Ask[c].owner \in DOMAIN Wants /\ Ask[c].tool \in Seq(STRING)
                           /\ IsPrefix(Wire(Ask[c].owner, <<>>), Ask[c].tool)
    /\ \A m \in Mixes : \/ m.start["connectors"] = Torn
                         \/ \A v \in DOMAIN m.start["connectors"] : ValidId(v) => v \in DOMAIN Wants
    /\ \A e \in Edits : Edit[e].file = "connectors" => Edit[e].name \in DOMAIN Wants

\* Offered as soon as there is a SKILL.md.
AnyExist == \E k \in Skills : shelf[k] # "none"

Configured == DOMAIN hub.ids

\* A configured connector owns its namespace, whether or not it answered at the start.
OwnsName(name) == Splits(name) /\ Prefix(name) \in Configured

\* The hub's own tool, then the first source that serves it; what nobody serves is the guest's.
Server(name) ==
    IF name = SecretRequest THEN StoreSide
    ELSE IF name \in BotTools THEN BotSide
    ELSE IF name \in SkillTools /\ AnyExist THEN SkillSide
    ELSE IF OwnsName(name) THEN Prefix(name)
    ELSE GuestSide

\* The catalogue a model is shown.
Offered == GuestTools \cup BotTools \cup {SecretRequest} \cup (IF AnyExist THEN SkillTools ELSE {})
           \cup {Wire(v, Tool[v]) : v \in hub.heard}

\* The credential is read as the request is made.
Header(v) == IF hub.ids[v] = None THEN None
             ELSE IF Holds("secrets", hub.ids[v]) THEN Read("secrets")[hub.ids[v]] ELSE "unresolved"

\* A remote takes its credential and no other; one that wants none takes any.
Takes(v, header) == header # "unresolved" /\ (Wants[v] = None \/ header = Wants[v])

\* An id that ends in the separator's symbol is not split off a name again; and RESERVED does not list
\* a namespace of the daemon's, "skill".
Trails(id)  == id[Len(id)] = "_"
SkillsTaken == <<"skill">> \in Configured

\* Ghost: what the call is for is there, as the home and the remotes are now.
Ready(c) ==
    LET owner == Ask[c].owner
    IN \/ owner \in {GuestSide, BotSide}
       \/ owner = SkillSide /\ ~SkillsTaken /\ AnyExist /\ (Ask[c].skill \in Skills => shelf[Ask[c].skill] = "whole")
       \/ owner \in Configured /\ ~Trails(owner) /\ remote[owner] = "up" /\ Takes(owner, Header(owner))

\* A client asks for a tool by its name; a model for one it was shown, by the name it was shown.
Begin(c) ==
    /\ hub.pc = "serves" /\ call[c].pc = "idle"
    /\ Ask[c].direct \/ Ask[c].tool \in Offered
    /\ call' = [call EXCEPT ![c] =
            [@ EXCEPT !.pc = "hooks", !.boot = hub.boot, !.ready = Ready(c),
                      !.name = IF Ask[c].direct THEN Ask[c].tool ELSE Restore(Sanitize(Ask[c].tool), Offered)]]
    /\ UNCHANGED writer

\* Past the hooks, the call goes to whoever serves it.
Answered(c, to, how) ==
    /\ call' = [Ended(c, how) EXCEPT ![c].to = to]
    /\ Note(c, how)

\* A handoff, a post, a read in the sandbox: Bots and Guest say what these do, and Hub whether there is
\* a guest to forward it to.
Elsewhere(c) ==
    LET to == Server(call[c].name)
    IN /\ to \in {BotSide, GuestSide}
       /\ \/ Answered(c, to, IF call[c].name \in BotTools \cup GuestTools THEN "ok" ELSE "failed")
          \/ to = GuestSide /\ Ends(c, "unrouted")

\* The skills directory is read again at each call.
Reads(c) ==
    /\ Server(call[c].name) = SkillSide
    /\ Answered(c, SkillSide, IF Ask[c].skill \in Skills => shelf[Ask[c].skill] = "whole" THEN "ok" ELSE "failed")

\* A request that cannot be given its credential is not sent.
Sends(c) ==
    LET to == Server(call[c].name)
    IN /\ to \in Configured
       /\ IF Header(to) = "unresolved" THEN Answered(c, to, "failed")
          ELSE /\ call' = [call EXCEPT ![c].pc = "asked", ![c].to = to, ![c].header = Header(to)]
               /\ UNCHANGED writer

\* A person types the credential, or does not; the value goes to the store.
Supplies(c) ==
    /\ Server(call[c].name) = StoreSide
    /\ \/ Answered(c, StoreSide, "unstored")
       \/ /\ call' = [call EXCEPT ![c].pc = "stores", ![c].to = StoreSide]
          /\ UNCHANGED writer

Route(c) == call[c].pc = "hooks" /\ Enough(c) /\ (Elsewhere(c) \/ Reads(c) \/ Sends(c) \/ Supplies(c))

\* An answer, a refusal, a connection that fails, or 120 seconds without any of them.
Answer(c) ==
    /\ call[c].pc = "asked"
    /\ LET to == call[c].to
       IN Ends(c, IF remote[to] = "up" /\ Takes(to, call[c].header) THEN "ok" ELSE "failed")

Stored(c) ==
    /\ call[c].pc = "stores" /\ edit[Ask[c].edit].pc = "ended"
    /\ Ends(c, IF edit[Ask[c].edit].told = "done" THEN "ok" ELSE "unstored")

Handles(c) == Begin(c) \/ AskHook(c) \/ Route(c) \/ Answer(c) \/ Stored(c)
Serves(c)  == c \in mix.calls /\ Handles(c) /\ UNCHANGED <<mix, budget, hub, remote, homeVars, edit, file, dropped>>

-----------------------------------------------------------------------------
(* The boot: hub_from_home_with, Connectors::load, discover.                  *)

\* Read back whole, and every id one that may be a prefix.
Loads == Read("connectors") # Torn /\ \A v \in DOMAIN Read("connectors") : ValidId(v)

Load ==
    /\ hub.pc = "down"
    /\ hub' = IF Loads THEN [hub EXCEPT !.pc = "probes", !.boot = @ + 1, !.ids = Read("connectors"),
                                        !.waits = DOMAIN Read("connectors"), !.heard = {}]
              ELSE [hub EXCEPT !.pc = "failed", !.boot = @ + 1]

\* All at once, and none is waited for longer than five seconds.
Probe ==
    \E v \in hub.waits :
        /\ hub.pc = "probes"
        /\ hub' = [hub EXCEPT !.waits = @ \ {v},
                              !.heard = IF remote[v] = "up" /\ Takes(v, Header(v)) THEN @ \cup {v} ELSE @]

\* The hooks are read last: a daemon that cannot read them does not start unguarded.
Opens ==
    /\ hub.pc = "probes" /\ hub.waits = {}
    /\ hub' = [hub EXCEPT !.pc = IF mix.bad THEN "failed" ELSE "serves"]

Boots == (Load \/ Probe \/ Opens) /\ UNCHANGED <<mix, budget, remote, call, homeVars, edit, recordVars>>

-----------------------------------------------------------------------------
(* The files are edited: SecretStore::set and remove, Connectors::save, and the  *)
(* commands secret, skill and connector.                                       *)

Active(e) == edit[e].pc \notin {"idle", "ended"}
File(e)   == Edit[e].file
Named(e)  == Edit[e].name

Applied(e, map) ==
    IF Edit[e].op = "put"
    THEN [n \in DOMAIN map \cup {Named(e)} |-> IF n = Named(e) THEN Edit[e].value ELSE map[n]]
    ELSE [n \in DOMAIN map \ {Named(e)} |-> map[n]]

Edited(e, pc)   == edit' = [edit EXCEPT ![e].pc = pc]
Finished(e, told) == edit' = [edit EXCEPT ![e].pc = "ended", ![e].told = told]

\* A connector's definition is checked where the person still has the context.
Legal(e) ==
    /\ Read(File(e)) # Torn
    /\ Edit[e].op = "drop" => Named(e) \in DOMAIN Read(File(e))
    /\ File(e) = "connectors" =>
          /\ Loads
          /\ Edit[e].op = "put" => ValidId(Named(e)) /\ (Edit[e].value = None \/ Holds("secrets", Edit[e].value))

\* Nobody else's copy of the file is out when this one is read.
Alone(e) == \A o \in mix.edits \ {e} : ~(Active(o) /\ File(o) = File(e))

\* The file is read into memory; a credential the person typed is stored by the daemon itself.
Loaded(e) ==
    /\ edit[e].pc = "idle" /\ File(e) \in Files
    /\ Edit[e].hub => \E c \in mix.calls : call[c].pc = "stores" /\ Ask[c].edit = e
    /\ IF Legal(e)
       THEN edit' = [edit EXCEPT ![e].pc = IF Edit[e].verify THEN "probe" ELSE "check", ![e].map = Read(File(e))]
       ELSE Finished(e, "failed")
    /\ clashed' = IF Alone(e) THEN clashed ELSE clashed \cup {File(e)}
    /\ UNCHANGED <<at, temp, data, kept, shelf, call>>

\* The remote is asked for its tools, for five seconds, with the credential there is.
Verified(e) ==
    /\ edit[e].pc = "probe"
    /\ IF /\ remote[Named(e)] = "up" /\ Edit[e].value # None => Holds("secrets", Edit[e].value)
          /\ Takes(Named(e), IF Edit[e].value = None THEN None ELSE Read("secrets")[Edit[e].value])
       THEN Edited(e, "check") ELSE Finished(e, "failed")
    /\ UNCHANGED <<homeVars, call>>

Checked(e) ==
    /\ edit[e].pc = "check"
    /\ IF File(e) = "connectors" /\ Edit[e].op = "put" /\ Named(e) \in DOMAIN edit[e].map
       THEN Finished(e, "failed") ELSE Edited(e, "open")
    /\ UNCHANGED <<homeVars, call>>

\* Everybody's temporary file has one name: whoever comes second gets the inode of the first.
Temporary(e) == IF temp[File(e)] = None THEN e ELSE temp[File(e)]

Opened(e) ==
    /\ edit[e].pc = "open"
    /\ temp' = [temp EXCEPT ![File(e)] = Temporary(e)]
    /\ data' = [data EXCEPT ![Temporary(e)] = Torn]
    /\ edit' = [edit EXCEPT ![e].pc = "fill", ![e].ino = Temporary(e)]
    /\ UNCHANGED <<at, kept, clashed, shelf, call>>

\* Two writers of one inode may leave a mixture.
Filled(e) ==
    /\ edit[e].pc = "fill"
    /\ \E content \in {Applied(e, edit[e].map)}
                      \cup IF \E o \in mix.edits \ {e} : Active(o) /\ edit[o].ino = edit[e].ino THEN {Torn} ELSE {} :
            data' = [data EXCEPT ![edit[e].ino] = content]
    /\ Edited(e, "rename")
    /\ UNCHANGED <<at, temp, kept, clashed, shelf>>
    /\ call' = Shaken

\* A name that somebody else has already moved away cannot be moved again.  The store of secrets is
\* closed to others once more when it is in place; if that fails, so does the command, its edit there.
Renamed(e) ==
    /\ edit[e].pc = "rename"
    /\ IF temp[File(e)] = None
       THEN Finished(e, "failed") /\ UNCHANGED <<homeVars, call>>
       ELSE /\ at' = [at EXCEPT ![File(e)] = temp[File(e)]]
            /\ temp' = [temp EXCEPT ![File(e)] = None]
            /\ kept' = [kept EXCEPT ![File(e)] = Applied(e, @)]
            /\ \E told \in {"done"} \cup (IF File(e) = "secrets" THEN {"failed"} ELSE {}) : Finished(e, told)
            /\ UNCHANGED <<data, clashed, shelf>>
            /\ call' = Shaken

\* `skill new` makes a folder and writes its SKILL.md, unless there is one; `skill rm` removes the folder.
SkillEdited(e) ==
    /\ File(e) = "skill"
    /\ \/ /\ edit[e].pc = "idle" /\ Edit[e].op = "put"
          /\ IF shelf[Named(e)] # "none" THEN Finished(e, "failed") /\ UNCHANGED shelf
             ELSE Edited(e, "fill") /\ shelf' = [shelf EXCEPT ![Named(e)] = "half"]
       \/ edit[e].pc = "fill" /\ Finished(e, "done") /\ shelf' = [shelf EXCEPT ![Named(e)] = "whole"]
       \/ /\ edit[e].pc = "idle" /\ Edit[e].op = "drop"
          /\ IF shelf[Named(e)] = "none" THEN Finished(e, "failed") /\ UNCHANGED shelf
             ELSE Finished(e, "done") /\ shelf' = [shelf EXCEPT ![Named(e)] = "none"]
    /\ call' = Shaken
    /\ UNCHANGED <<at, temp, data, kept, clashed>>

EditStep(e) ==
    /\ e \in mix.edits
    /\ Loaded(e) \/ Verified(e) \/ Checked(e) \/ (File(e) \in Files /\ (Opened(e) \/ Filled(e) \/ Renamed(e))) \/ SkillEdited(e)
    /\ UNCHANGED <<mix, budget, hub, remote, recordVars>>

-----------------------------------------------------------------------------
(* The world.                                                                  *)

\* The editor is killed.
Dies(e) ==
    /\ e \in mix.edits /\ Active(e) /\ ~Edit[e].hub /\ Spend("death")
    /\ Finished(e, "nothing")
    /\ UNCHANGED <<mix, hub, remote, call, homeVars, recordVars>>

RemoteChanges(v, state) ==
    /\ v \in DOMAIN remote /\ state # remote[v] /\ Spend("remote")
    /\ remote' = [remote EXCEPT ![v] = state]
    /\ call' = Shaken
    /\ UNCHANGED <<mix, hub, homeVars, edit, recordVars>>

\* The disk takes a part of a line or none of it: that is logged, and the line dropped.
Drops ==
    /\ Spend("disk")
    /\ \E line \in writer.doing :
          /\ Breaks(line) /\ dropped' = dropped \cup {line.call}
          /\ writer' = [writer EXCEPT !.doing = @ \ {line}]
    /\ UNCHANGED <<mix, hub, remote, call, homeVars, edit>>

\* The daemon is killed: its calls, its queue and its counters are gone, and the line it was writing
\* is there, or not, or is half there.
Crash ==
    /\ hub.pc # "down" /\ Spend("crash")
    /\ hub' = [hub EXCEPT !.pc = "down", !.waits = {}]
    /\ call' = [c \in mix.calls |-> IF call[c].pc \in {"idle", "ended"} THEN call[c]
                                    ELSE [call[c] EXCEPT !.pc = "ended", !.end = "lost"]]
    /\ edit' = [e \in mix.edits |-> IF Active(e) /\ Edit[e].hub THEN [edit[e] EXCEPT !.pc = "ended"] ELSE edit[e]]
    /\ IF writer.doing = {} THEN UNCHANGED file
       ELSE \E line \in writer.doing : Breaks(line) \/ Lands(line)
    /\ writer' = [queue |-> <<>>, doing |-> {}, count |-> [k \in Keys |-> 0], sent |-> 0]
    /\ UNCHANGED <<mix, remote, homeVars, dropped>>

Next ==
    \/ \E c \in Calls : Serves(c)
    \/ \E e \in Edits : EditStep(e) \/ Dies(e)
    \/ \E v \in DOMAIN Wants, state \in {"up", "down", "slow"} : RemoteChanges(v, state)
    \/ Boots \/ Records \/ Drops \/ Crash

Spec == Init /\ [][Next]_vars

\* Everything runs but the asking: what was begun is carried on.
Carries ==
    \/ \E c \in Calls : Serves(c) /\ call[c].pc # "idle"
    \/ \E e \in Edits : EditStep(e) /\ edit[e].pc # "idle"
    \/ \E e \in Edits : EditStep(e) /\ Edit[e].hub
    \/ Boots /\ hub.pc = "probes"
    \/ Records

FairSpec == Spec /\ WF_vars(Carries)

-----------------------------------------------------------------------------
(* Properties.                                                                 *)

Lines(k) == file[k]
Drafts   == ToSet(writer.queue) \cup writer.doing \cup UNION {ToSet(file[k]) : k \in Keys}

\* Every variable keeps its type; a file's temporary is not the file; one line is written at a time.
TypeOK ==
    /\ hub.pc \in {"down", "probes", "serves", "failed"} /\ hub.heard \subseteq Configured /\ hub.waits \subseteq Configured
    /\ \A c \in mix.calls :
          /\ call[c].pc \in {"idle", "hooks", "blocked", "asked", "stores", "ended"}
          /\ call[c].end \in {"none", "ok", "failed", "refused", "unstored", "unrouted", "lost"}
          /\ (call[c].end # "none") = (call[c].pc = "ended")
    /\ \A f \in Files : {at[f]} \subseteq DOMAIN data /\ temp[f] \in (DOMAIN data \cup {None}) \ {at[f]}
    /\ \A e \in mix.edits : edit[e].pc \in {"idle", "probe", "check", "open", "fill", "rename", "ended"}
    /\ \A k \in Skills : shelf[k] \in {"none", "half", "whole"}
    /\ clashed \subseteq Files /\ Cardinality(writer.doing) <= 1

\* A call runs only when every hook that matches it let it: silence or an approval of the one is no
\* answer of the next, and a hook that fails or hangs refuses unless it was marked fail_open
\* (Hooks::check).
GuardHolds ==
    \A c \in mix.calls :
        call[c].to # None =>
            LET asked == Matching(c)
            IN \A i \in 1 .. Len(asked) :
                  i \in DOMAIN call[c].heard /\ ~Objects(asked[i], call[c].heard[i])

\* A call for a connector the daemon is configured with reaches that connector, whatever it was heard
\* to offer and by whichever name a model asked for it, and never the guest or another source
\* (ConnectorTools::serves, restore_names).  An id that ends in the separator's symbol is not one of
\* these, and a connector called "skill" takes the calls for the skills.
RoutedToItsOwner ==
    \A c \in mix.calls :
        LET owner == Ask[c].owner
        IN call[c].to # None /\ call[c].boot = hub.boot /\ (owner = SkillSide => ~SkillsTaken)
           /\ (owner \in DOMAIN Wants => owner \in Configured /\ ~Trails(owner))
              => call[c].to = owner \/ (owner = SkillSide /\ call[c].to = GuestSide /\ ~call[c].ready)

WellEnded(c) == {"ok", "refused", "lost"} \cup (IF Ask[c].owner = GuestSide THEN {"unrouted"} ELSE {})

\* What a call needs is read when it is needed: with its remote answering, its credential stored or its
\* skill written by the time it is asked, it succeeds, whatever was there when the daemon started
\* (ConnectorTools::invoke, Skills::invoke, interpolate).  Only a call for the guest may find nobody to
\* route it to.
NoRestartNeeded ==
    \A c \in mix.calls : call[c].ready /\ call[c].pc = "ended" => call[c].end \in WellEnded(c)

\* Unless two editors of a file were in it at once, the file holds what every edit that came through
\* left, and so every acknowledged one, at every moment and whoever is killed (SecretStore::write,
\* Connectors::save).
EditsStick == \A f \in Files : f \notin clashed => Read(f) = kept[f]

\* Sequence numbers, the order of the lines and the order the calls ended in agree, within one life of
\* the daemon (ToBotStore::spawn).
RecordIsInOrder ==
    \A k \in Keys : \A i \in DOMAIN Lines(k) : \A j \in DOMAIN Lines(k) :
        i < j /\ Lines(k)[i].boot = Lines(k)[j].boot =>
            Lines(k)[i].seq < Lines(k)[j].seq /\ Lines(k)[i].nth < Lines(k)[j].nth

\* Every call of a Bot that this life of the daemon ended, as far as endings are noted, is on its way to
\* the file or has a line there that says how it ended and can be read back, with two exceptions: the
\* disk refused its line, or the line stands directly behind what was left of another; and this life
\* leaves no such piece but of a line the disk refused, so that a crash costs the next life one line of a
\* session at most (Hub::note, ToBotStore::spawn, append_lines, steps).
RecordTellsWhatHappened ==
    hub.pc = "serves" =>
    /\ \A c \in mix.calls :
          call[c].end \in {"ok", "failed", "refused"} /\ call[c].boot = hub.boot /\ Ask[c].key # None =>
            \/ c \in dropped
            \/ \E draft \in ToSet(writer.queue) \cup writer.doing : draft.call = c /\ draft.how = call[c].end
            \/ \E k \in Keys : \E i \in DOMAIN Lines(k) :
                  /\ Lines(k)[i].call = c /\ Lines(k)[i].how = call[c].end
                  /\ Readable(Lines(k), i) \/ Spoilt(Lines(k), i)
    /\ \A k \in Keys : \A i \in DOMAIN Lines(k) :
          Cut(Lines(k)[i]) /\ Lines(k)[i].boot = hub.boot => Lines(k)[i].call \in dropped

\* Two calls are recorded with the same arguments exactly when they had them, in whatever order a
\* client wrote them and however long they are (Captured::of).
SameCallSameCapture ==
    \A one \in Drafts : \A two \in Drafts :
        (one.args = two.args) = (ToSet(Ask[one.call].args) = ToSet(Ask[two.call].args))

\* A hook may keep a call for ever in one way: it neither reads its question nor ends, and the question
\* is more than the pipe holds.
HeldByHook(c) ==
    call[c].pc = "blocked" /\ Ask[c].large /\ "blocks" \in Hook[Matching(c)[Len(call[c].heard) + 1]].answers

\* That apart, no hook, remote or slow connector keeps a call for ever, nor does a call that is kept
\* keep another, an edit, the boot or the record.
Settled ==
    /\ \A c \in mix.calls : call[c].pc \in {"idle", "ended"} \/ HeldByHook(c)
    /\ \A e \in mix.edits : ~Active(e)
    /\ hub.pc # "probes" /\ writer.queue = <<>> /\ writer.doing = {}
CallsEnd == []<>Settled

\* A call goes where it was addressed, with every guard's leave, and finds there what was
\* configured, stored or written since the start (Hooks::check, ConnectorTools, Skills).
CallsGoWhereTheyShould == TypeOK /\ GuardHolds /\ RoutedToItsOwner /\ NoRestartNeeded

\* The files tell what happened: the settings hold what their editors left, the record one
\* line a call, in order, of what it was called with, but for what a crash or the disk spoilt
\* (Connectors::save, ToBotStore).
FilesTellWhatHappened ==
    EditsStick /\ RecordIsInOrder /\ RecordTellsWhatHappened /\ SameCallSameCapture

=============================================================================
