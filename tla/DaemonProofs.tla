------------------------------ MODULE DaemonProofs ------------------------------
(***************************************************************************)
(* What Daemon keeps, proved: the files hold what every acknowledged edit left, the  *)
(* record has one line a call, in order, of what it was called with, a call runs only  *)
(* when every hook that matches it let it, and it goes to whom it was addressed and     *)
(* finds there what the home holds now.                                              *)
(*                                                                         *)
(* The invariant is in four parts: the files and their editors (FilesInv), the calls  *)
(* and their hooks (CallsInv), the record (RecordInv), and whom a call is for           *)
(* (GoesInv). The first two are each inductive by themselves; the third with the        *)
(* second, which says whose call ends and when; the fourth with the first two.          *)
(* GoesInv rests on what the operators on names compute, which is shown first by       *)
(* induction on the length of a name.                                                *)
(***************************************************************************)
EXTENDS Daemon, FiniteSetTheorems, SequenceTheorems, NaturalsInduction, WellFoundedInduction, TLAPS

(***************************************************************************)
(* The files.                                                                *)
(***************************************************************************)

Inodes == Files \cup mix.edits

\* The file an inode was made for: nothing of one file is ever moved to another.
MadeFor(i) == IF i \in Files THEN i ELSE File(i)

\* An inode somebody made has been opened by its maker.
Made(i) == i \in mix.edits => edit[i].pc \in {"fill", "rename", "ended"}

Inode(f, i) == i \in Inodes /\ MadeFor(i) = f /\ Made(i)

EditTypes ==
    /\ mix \in Mixes /\ DOMAIN edit = mix.edits /\ DOMAIN data = Inodes
    /\ DOMAIN at = Files /\ DOMAIN temp = Files /\ DOMAIN kept = Files
    /\ \A e \in mix.edits : DOMAIN edit[e] = {"pc", "map", "ino", "told"}

\* A file and its temporary are two inodes of that file; whoever fills or renames has one open.
Places ==
    /\ \A f \in Files : Inode(f, at[f]) /\ (temp[f] # None => Inode(f, temp[f]) /\ temp[f] # at[f])
    /\ \A e \in mix.edits :
         /\ edit[e].ino # None => Inode(File(e), edit[e].ino)
         /\ File(e) \in Files /\ edit[e].pc \in {"fill", "rename"} => edit[e].ino # None

\* Where an editor is that nobody disturbs: what it read is what is there, the temporary is its own, and
\* once filled holds what was there with its edit.
Course(e) ==
    /\ edit[e].map = kept[File(e)]
    /\ edit[e].pc \in {"fill", "rename"} => temp[File(e)] = edit[e].ino
    /\ edit[e].pc = "rename" => data[edit[e].ino] = Applied(e, kept[File(e)])

\* A file that never had two editors.
Undisturbed(f) ==
    /\ Read(f) = kept[f]
    /\ \A e, o \in mix.edits : Active(e) /\ Active(o) /\ File(e) = f /\ File(o) = f => e = o
    /\ \A e \in mix.edits : Active(e) /\ File(e) = f => Course(e)

FilesInv == EditTypes /\ Places /\ \A f \in Files \ clashed : Undisturbed(f)

(***************************************************************************)
(* The calls.                                                                *)
(***************************************************************************)

Hows == {"ok", "failed", "refused", "unstored", "unrouted", "lost"}

CallFields == {"pc", "name", "heard", "header", "to", "ready", "end", "boot"}

\* A call has an end when it ended; it has gone to nobody before all its hooks were heard.
CallFits(c) ==
    /\ DOMAIN call[c] = CallFields
    /\ call[c].pc \in {"idle", "hooks", "blocked", "asked", "stores", "ended"} /\ call[c].end \in Hows \cup {"none"}
    /\ (call[c].end # "none") = (call[c].pc = "ended")
    /\ call[c].pc \in {"idle", "hooks"} => call[c].to = None
    /\ call[c].pc = "idle" => call[c].heard = <<>>
    /\ \E S : call[c].heard \in Seq(S)

\* Nothing that was heard was an objection.
Unopposed(c) ==
    /\ \A i \in 1 .. Len(call[c].heard) : ~Objects(Matching(c)[i], call[c].heard[i])
    /\ call[c].to # None => Enough(c)

\* A call belongs to one life of the daemon, and is under way only while it serves.
Lives(c) ==
    /\ call[c].boot \in Nat /\ call[c].boot <= hub.boot
    /\ hub.pc \in {"probes", "failed"} => call[c].boot < hub.boot
    /\ hub.pc # "serves" => call[c].pc \in {"idle", "ended"}

CallsInv ==
    /\ mix \in Mixes /\ DOMAIN call = mix.calls
    /\ DOMAIN hub = {"pc", "boot", "ids", "heard", "waits"} /\ hub.boot \in Nat
    /\ \A c \in mix.calls : CallFits(c) /\ Unopposed(c) /\ Lives(c)

(***************************************************************************)
(* The record.                                                               *)
(***************************************************************************)

Args == {Capture(Ask[c].args) : c \in Calls}
Draft == [call : Calls, args : Args, how : Hows, nth : Nat]
LineOf == [call : Calls, args : Args, how : Hows, nth : Nat, seq : Nat, boot : Nat, form : {"line", "half", "bare"}]

\* What is noted is of a call of a Bot, and says what that call was called with.
Faithful(draft) == draft.args = Capture(Ask[draft.call].args) /\ Ask[draft.call].key \in Keys

RecordTypes ==
    /\ DOMAIN writer = {"queue", "doing", "count", "sent"}
    /\ writer.queue \in Seq(Draft) /\ writer.doing \subseteq LineOf
    /\ writer.count \in [Keys -> Nat] /\ writer.sent \in Nat
    /\ file \in [Keys -> Seq(LineOf)]
    /\ \A i \in 1 .. Len(writer.queue) : Faithful(writer.queue[i])
    /\ \A line \in writer.doing : Faithful(line) /\ line.form = "line"
    /\ \A k \in Keys : \A i \in 1 .. Len(file[k]) : Faithful(file[k][i]) /\ file[k][i].boot <= hub.boot

Ours(line) == line.boot = hub.boot

\* Each line of this life of the daemon is before the next: what is in the file, what is being written,
\* what is in the queue, and what is still to be noted.
LinesInOrder ==
    \A k \in Keys : \A i, j \in 1 .. Len(file[k]) :
         i < j /\ file[k][i].boot = file[k][j].boot =>
            file[k][i].seq < file[k][j].seq /\ file[k][i].nth < file[k][j].nth

\* One line is written at a time; it is behind its file and before the queue.
DoingInOrder ==
    \A line \in writer.doing :
         /\ Ours(line) /\ line.nth <= writer.sent /\ line.seq <= writer.count[Ask[line.call].key]
         /\ \A k \in Keys : \A i \in 1 .. Len(file[k]) :
              Ours(file[k][i]) => file[k][i].nth < line.nth /\ (k = Ask[line.call].key => file[k][i].seq < line.seq)
         /\ \A twin \in writer.doing : twin = line
         /\ \A i \in 1 .. Len(writer.queue) : line.nth < writer.queue[i].nth

QueueInOrder ==
    \A i \in 1 .. Len(writer.queue) :
         /\ writer.queue[i].nth <= writer.sent
         /\ \A j \in 1 .. Len(writer.queue) : i < j => writer.queue[i].nth < writer.queue[j].nth
         /\ \A k \in Keys : \A n \in 1 .. Len(file[k]) : Ours(file[k][n]) => file[k][n].nth < writer.queue[i].nth

CountsAhead ==
    hub.pc # "down" => \A k \in Keys : \A n \in 1 .. Len(file[k]) :
         Ours(file[k][n]) => file[k][n].seq <= writer.count[k] /\ file[k][n].nth <= writer.sent

\* A daemon that does not serve has noted nothing.
Silent ==
    hub.pc # "serves" =>
        writer.queue = <<>> /\ writer.doing = {} /\ writer.sent = 0 /\ \A k \in Keys : writer.count[k] = 0

\* What says how a call ended and will not be broken: what is still to be written, and the lines that
\* have their end.
Sound ==
    ToSet(writer.queue) \cup writer.doing
    \cup UNION {{line \in ToSet(file[k]) : line.form = "line"} : k \in Keys}

\* Every call that ended has a sound draft, unless the disk refused its line.
Told ==
    hub.pc = "serves" => \A c \in mix.calls :
        call[c].end \in {"ok", "failed", "refused"} /\ call[c].boot = hub.boot /\ Ask[c].key # None =>
            c \in dropped \/ \E draft \in Sound : draft.call = c /\ draft.how = call[c].end

\* A daemon that runs has left no piece of a line but of one the disk refused.
PiecesDropped ==
    hub.pc # "down" => \A k \in Keys : \A i \in 1 .. Len(file[k]) :
        Ours(file[k][i]) /\ file[k][i].form # "line" => file[k][i].call \in dropped

RecordInv ==
    /\ RecordTypes /\ LinesInOrder /\ DoingInOrder /\ QueueInOrder /\ CountsAhead /\ Silent
    /\ Told /\ PiecesDropped

-----------------------------------------------------------------------------
(***************************************************************************)
(* The files hold what was left there.                                       *)
(***************************************************************************)

LEMMA FilesAre == Files = {"secrets", "connectors"} /\ None \notin Files /\ Files \cap Edits = {} /\ None \notin Edits
  BY DaemonAssumption DEF Files

LEMMA MixFacts ==
    ASSUME mix \in Mixes
    PROVE  /\ mix.edits \subseteq Edits /\ mix.calls \subseteq Calls /\ DOMAIN mix.start = Files
           /\ None \notin Inodes /\ \A e \in mix.edits : e \notin Files
  BY FilesAre, DaemonAssumption DEF Files, Inodes

LEMMA FilesInit == Init => FilesInv
<1> SUFFICES ASSUME Init PROVE FilesInv
  OBVIOUS
<1>1. mix \in Mixes /\ \A e \in mix.edits : e \notin Files /\ e # None
  BY MixFacts, FilesAre DEF Init, Inodes
<1>2. EditTypes
  BY <1>1, MixFacts DEF Init, EditTypes, Inodes, Still
<1>3. \A e \in mix.edits : edit[e].pc = "idle" /\ edit[e].ino = None
  BY DEF Init, Still
<1>4. Places
  BY <1>1, <1>3 DEF Init, Places, Inode, Inodes, MadeFor, Made
<1>5. ASSUME NEW f \in Files PROVE Undisturbed(f)
  BY <1>1, <1>3 DEF Init, Undisturbed, Read, Active
<1> QED
  BY <1>2, <1>4, <1>5 DEF FilesInv

\* An editor goes on in memory, gives up, or dies; what it read and what it opened stay.
Moves(e) ==
    /\ DOMAIN edit'[e] = DOMAIN edit[e] /\ edit'[e].map = edit[e].map /\ edit'[e].ino = edit[e].ino
    /\ \/ edit'[e].pc = edit[e].pc \/ edit'[e].pc = "ended"
       \/ edit'[e].pc = "fill" /\ File(e) \notin Files
       \/ edit[e].pc \in {"probe", "check"} /\ edit'[e].pc \in {"check", "open"}

LEMMA EditsMove ==
    ASSUME FilesInv, mix' = mix, DOMAIN edit' = mix.edits, \A e \in mix.edits : Moves(e),
           at' = at, temp' = temp, data' = data, kept' = kept, clashed \subseteq clashed'
    PROVE  FilesInv'
<1>1. EditTypes /\ Places /\ Files' = Files /\ Inodes' = Inodes
  BY DEF FilesInv, Files, Inodes
<1>2. EditTypes'
  BY <1>1 DEF EditTypes, Moves
<1>3. \A f, i : Inode(f, i) => Inode(f, i)'
  <2> SUFFICES ASSUME NEW f, NEW i, Inode(f, i) PROVE Inode(f, i)'
    OBVIOUS
  <2>1. i \in mix.edits /\ edit[i].pc \in {"fill", "rename", "ended"} => edit'[i].pc \in {"fill", "rename", "ended"}
    BY DEF Moves
  <2> QED
    BY <1>1, <2>1 DEF Inode, Made, MadeFor, File, Files
<1>4. Places'
  <2>1. ASSUME NEW e \in mix.edits, edit'[e].ino # None PROVE Inode(File(e), edit[e].ino)'
    BY <1>1, <1>3, <2>1 DEF Places, Moves, File
  <2>2. ASSUME NEW e \in mix.edits, File(e) \in Files, edit'[e].pc \in {"fill", "rename"} PROVE edit'[e].ino # None
    BY <1>1, <2>2 DEF Places, Moves
  <2>3. ASSUME NEW f \in Files PROVE Inode(f, at[f])' /\ (temp[f] # None => Inode(f, temp[f])' /\ temp[f] # at[f])
    BY <1>1, <1>3 DEF Places
  <2> QED
    BY <1>1, <2>1, <2>2, <2>3 DEF Places, File
<1>5. ASSUME NEW f \in Files \ clashed' PROVE Undisturbed(f)'
  <2>1. Undisturbed(f)
    BY <1>5 DEF FilesInv
  <2>2. ASSUME NEW e \in mix.edits, Active(e)', File(e) = f
        PROVE  Active(e) /\ (edit'[e].pc = "fill" => edit[e].pc = "fill") /\ (edit'[e].pc = "rename" => edit[e].pc = "rename")
    BY <2>2 DEF Moves, Active
  <2>3. Read(f)' = kept'[f]
    BY <2>1 DEF Undisturbed, Read
  <2>4. \A e, o \in mix.edits : Active(e)' /\ Active(o)' /\ File(e) = f /\ File(o) = f => e = o
    BY <2>1, <2>2 DEF Undisturbed
  <2>5. ASSUME NEW e \in mix.edits, Active(e)', File(e) = f PROVE Course(e)'
    <3>1. Course(e)
      BY <2>1, <2>2, <2>5 DEF Undisturbed
    <3> QED
      BY <2>2, <2>5, <3>1 DEF Course, Moves, File, Applied, Named
  <2> QED
    BY <2>3, <2>4, <2>5 DEF Undisturbed, File
<1> QED
  BY <1>1, <1>2, <1>4, <1>5 DEF FilesInv

LEMMA FilesKept ==
    ASSUME FilesInv, mix' = mix, edit' = edit, at' = at, temp' = temp, data' = data, kept' = kept, clashed' = clashed
    PROVE  FilesInv'
<1>1. \A e \in mix.edits : Moves(e)
  BY DEF Moves
<1> QED
  BY <1>1, EditsMove DEF FilesInv, EditTypes

\* One editor goes on.
LEMMA OneMoves ==
    ASSUME FilesInv, NEW e \in mix.edits, mix' = mix, at' = at, temp' = temp, data' = data, kept' = kept,
           clashed \subseteq clashed', NEW pc, Edited(e, pc),
           \/ File(e) \notin Files /\ pc = "fill"
           \/ edit[e].pc \in {"probe", "check"} /\ pc \in {"check", "open"}
    PROVE  FilesInv'
<1>1. DOMAIN edit = mix.edits /\ DOMAIN edit[e] = {"pc", "map", "ino", "told"}
  BY DEF FilesInv, EditTypes
<1>2. DOMAIN edit' = mix.edits /\ \A o \in mix.edits \ {e} : edit'[o] = edit[o]
  BY <1>1 DEF Edited
<1>3. Moves(e)
  BY <1>1 DEF Edited, Moves
<1>4. \A o \in mix.edits : Moves(o)
  BY <1>2, <1>3 DEF Moves
<1> QED
  BY <1>2, <1>4, EditsMove

\* One editor is done with it, whatever it was told.
LEMMA OneEnds ==
    ASSUME FilesInv, NEW e \in mix.edits, mix' = mix, at' = at, temp' = temp, data' = data, kept' = kept,
           clashed \subseteq clashed', NEW told, Finished(e, told)
    PROVE  FilesInv'
<1>1. DOMAIN edit = mix.edits /\ DOMAIN edit[e] = {"pc", "map", "ino", "told"}
  BY DEF FilesInv, EditTypes
<1>2. DOMAIN edit' = mix.edits /\ \A o \in mix.edits \ {e} : edit'[o] = edit[o]
  BY <1>1 DEF Finished
<1>3. Moves(e)
  BY <1>1 DEF Finished, Moves
<1>4. \A o \in mix.edits : Moves(o)
  BY <1>2, <1>3 DEF Moves
<1> QED
  BY <1>2, <1>4, EditsMove

\* An editor that begins finds the file as everybody left it, or is not the first.
LEMMA LoadedKeeps ==
    ASSUME FilesInv, NEW e \in mix.edits, mix' = mix, Loaded(e)
    PROVE  FilesInv'
<1>1. /\ edit[e].pc = "idle" /\ File(e) \in Files /\ at' = at /\ temp' = temp /\ data' = data /\ kept' = kept
      /\ clashed' = IF Alone(e) THEN clashed ELSE clashed \cup {File(e)}
  BY DEF Loaded
<1>2. CASE ~Legal(e)
  BY <1>1, <1>2, OneEnds DEF Loaded
<1>3. CASE Legal(e)
  <2>1. EditTypes /\ Places /\ Files' = Files /\ Inodes' = Inodes
    BY DEF FilesInv, Files, Inodes
  <2> DEFINE to == IF Edit[e].verify THEN "probe" ELSE "check"
  <2>2. edit' = [edit EXCEPT ![e].pc = to, ![e].map = Read(File(e))]
    BY <1>3 DEF Loaded
  <2> HIDE DEF to
  <2>2a. to \in {"probe", "check"}
    BY DEF to
  <2>3. /\ DOMAIN edit' = mix.edits /\ DOMAIN edit'[e] = {"pc", "map", "ino", "told"}
        /\ edit'[e].pc = to /\ edit'[e].map = Read(File(e)) /\ edit'[e].ino = edit[e].ino
        /\ \A o \in mix.edits \ {e} : edit'[o] = edit[o]
    BY <2>1, <2>2 DEF EditTypes
  <2>4. EditTypes'
    BY <2>1, <2>3, <1>1 DEF EditTypes
  <2>5. \A f, i : Inode(f, i) => Inode(f, i)'
    BY <1>1, <2>1, <2>3 DEF Inode, Made, MadeFor, File, Files
  <2>6. Places'
    <3>1. ASSUME NEW o \in mix.edits, edit'[o].ino # None PROVE Inode(File(o), edit[o].ino)' 
      BY <2>1, <2>3, <2>5, <3>1 DEF Places, File
    <3>2. ASSUME NEW o \in mix.edits, File(o) \in Files, edit'[o].pc \in {"fill", "rename"} PROVE edit'[o].ino # None
      BY <2>1, <2>2a, <2>3, <3>2 DEF Places
    <3>3. ASSUME NEW f \in Files PROVE Inode(f, at[f])' /\ (temp[f] # None => Inode(f, temp[f])' /\ temp[f] # at[f])
      BY <1>1, <2>1, <2>5 DEF Places
    <3> QED
      BY <1>1, <2>1, <3>1, <3>2, <3>3 DEF Places, File
  <2>7. ASSUME NEW f \in Files \ clashed' PROVE Undisturbed(f)'
    <3>1. Undisturbed(f) /\ (File(e) = f => Alone(e))
      BY <1>1, <2>7 DEF FilesInv
    <3>2. Read(f)' = kept'[f]
      BY <1>1, <3>1 DEF Undisturbed, Read
    <3>3. ASSUME NEW o \in mix.edits \ {e}, File(o) = f, Active(o)' PROVE Active(o) /\ File(e) # f
      BY <2>3, <3>1, <3>3 DEF Active, Alone
    <3>4. \A o, p \in mix.edits : Active(o)' /\ Active(p)' /\ File(o) = f /\ File(p) = f => o = p
      BY <3>1, <3>3 DEF Undisturbed
    <3>5. ASSUME NEW o \in mix.edits, Active(o)', File(o) = f PROVE Course(o)'
      <4>1. CASE o = e
        BY <1>1, <2>2a, <2>3, <3>1, <3>5, <4>1 DEF Course, Undisturbed, File
      <4>2. CASE o # e
        BY <1>1, <2>3, <3>1, <3>3, <3>5, <4>2 DEF Course, Undisturbed, File, Applied, Named
      <4> QED
        BY <4>1, <4>2
    <3> QED
      BY <2>1, <3>2, <3>4, <3>5 DEF Undisturbed, File
  <2> QED
    BY <2>1, <2>4, <2>6, <2>7 DEF FilesInv
<1> QED
  BY <1>2, <1>3

\* What is opened is empty from then on, and is neither the file nor of another file.
LEMMA OpenedKeeps ==
    ASSUME FilesInv, NEW e \in mix.edits, mix' = mix, File(e) \in Files, Opened(e)
    PROVE  FilesInv'
<1> DEFINE f == File(e)
<1>0. PICK i : i = Temporary(e)
  OBVIOUS
<1>1. EditTypes /\ Places /\ Files' = Files /\ Inodes' = Inodes /\ mix \in Mixes
  BY DEF FilesInv, Files, Inodes, EditTypes
<1>2. /\ edit[e].pc = "open" /\ temp' = [temp EXCEPT ![f] = i] /\ data' = [data EXCEPT ![i] = Torn]
      /\ edit' = [edit EXCEPT ![e].pc = "fill", ![e].ino = i] /\ at' = at /\ kept' = kept /\ clashed' = clashed
  BY <1>0 DEF Opened
<1>3. /\ e \notin Files /\ e # None /\ None \notin Inodes
  BY <1>1, MixFacts DEF Inodes
<1>4. i \in Inodes /\ MadeFor(i) = f /\ i # at[f] /\ (i # e => Made(i))
  <2>1. CASE temp[f] = None
    <3>1. i = e /\ e \in Inodes /\ MadeFor(e) = f
      BY <1>0, <1>3, <2>1 DEF Temporary, Inodes, MadeFor
    <3>2. at[f] # e
      BY <1>1, <1>2 DEF Places, Inode, Made
    <3> QED
      BY <3>1, <3>2
  <2>2. CASE temp[f] # None
    BY <1>0, <1>1, <2>2 DEF Temporary, Places, Inode
  <2> QED
    BY <2>1, <2>2
<1>5. /\ DOMAIN edit' = mix.edits /\ DOMAIN edit'[e] = {"pc", "map", "ino", "told"}
      /\ edit'[e].pc = "fill" /\ edit'[e].map = edit[e].map /\ edit'[e].ino = i
      /\ \A o \in mix.edits \ {e} : edit'[o] = edit[o]
  BY <1>1, <1>2 DEF EditTypes
<1>6. /\ DOMAIN data' = Inodes /\ data'[i] = Torn /\ (\A j \in Inodes \ {i} : data'[j] = data[j])
      /\ DOMAIN temp' = Files /\ temp'[f] = i /\ (\A g \in Files \ {f} : temp'[g] = temp[g])
  BY <1>1, <1>2, <1>4 DEF EditTypes
<1>7. EditTypes'
  BY <1>1, <1>2, <1>5, <1>6 DEF EditTypes
<1>8. \A g, j : Inode(g, j) => Inode(g, j)'
  BY <1>1, <1>5 DEF Inode, Made, MadeFor, File, Files
<1>9. Inode(f, i)'
  BY <1>1, <1>4, <1>5 DEF Inode, Made, MadeFor, File, Files
<1>10. Places'
  <2>1. ASSUME NEW o \in mix.edits, edit'[o].ino # None PROVE Inode(File(o), edit[o].ino)'
    BY <1>1, <1>5, <1>8, <1>9, <2>1 DEF Places, File
  <2>2. ASSUME NEW o \in mix.edits, File(o) \in Files, edit'[o].pc \in {"fill", "rename"} PROVE edit'[o].ino # None
    BY <1>1, <1>3, <1>4, <1>5, <2>2 DEF Places
  <2>3. ASSUME NEW g \in Files PROVE Inode(g, at[g])' /\ (temp'[g] # None => Inode(g, temp[g])' /\ temp'[g] # at[g])
    <3>1. Inode(g, at[g])'
      BY <1>1, <1>2, <1>8 DEF Places
    <3>2. CASE g = f
      BY <1>4, <1>6, <1>9, <3>1, <3>2
    <3>3. CASE g # f
      BY <1>1, <1>6, <1>8, <3>1, <3>3 DEF Places
    <3> QED
      BY <3>2, <3>3
  <2> QED
    BY <1>1, <1>2, <2>1, <2>2, <2>3 DEF Places, File
<1>11. ASSUME NEW g \in Files \ clashed' PROVE Undisturbed(g)'
  <2>1. Undisturbed(g)
    BY <1>2, <1>11 DEF FilesInv
  <2>2. at[g] \in Inodes /\ at[g] # i
    BY <1>1, <1>4 DEF Places, Inode
  <2>3. Read(g)' = kept'[g]
    BY <1>2, <1>6, <2>1, <2>2 DEF Undisturbed, Read
  <2>4. \A o \in mix.edits : Active(o)' => Active(o)
    BY <1>2, <1>5 DEF Active
  <2>5. ASSUME NEW o \in mix.edits, Active(o)', File(o) = g PROVE Course(o)'
    <3>1. Course(o) /\ Active(e)
      BY <1>2, <2>1, <2>4, <2>5 DEF Undisturbed, Active
    <3>2. CASE o = e
      BY <1>2, <1>5, <1>6, <2>5, <3>1, <3>2 DEF Course, File
    <3>3. CASE o # e
      <4>1. g # f
        BY <2>1, <2>4, <2>5, <3>1, <3>3 DEF Undisturbed
      <4>2. edit[o].pc = "rename" => edit[o].ino # None /\ edit[o].ino \in Inodes /\ edit[o].ino # i
        BY <1>1, <1>4, <2>5, <4>1 DEF Places, Inode
      <4> QED
        BY <1>2, <1>5, <1>6, <2>5, <3>1, <3>3, <4>1, <4>2 DEF Course, File, Applied, Named
    <3> QED
      BY <3>2, <3>3
  <2> QED
    BY <1>1, <2>1, <2>3, <2>4, <2>5 DEF Undisturbed, File
<1> QED
  BY <1>1, <1>7, <1>10, <1>11 DEF FilesInv

\* What is filled is what the editor has open, and nobody else has it open who was not there too.
LEMMA FilledKeeps ==
    ASSUME FilesInv, NEW e \in mix.edits, mix' = mix, File(e) \in Files, Filled(e)
    PROVE  FilesInv'
<1> DEFINE f == File(e)
           Mixed == \E o \in mix.edits \ {e} : Active(o) /\ edit[o].ino = edit[e].ino
<1>0. PICK i : i = edit[e].ino
  OBVIOUS
<1>1. EditTypes /\ Places /\ Files' = Files /\ Inodes' = Inodes /\ mix \in Mixes
  BY DEF FilesInv, Files, Inodes, EditTypes
<1>2. PICK content \in {Applied(e, edit[e].map)} \cup IF Mixed THEN {Torn} ELSE {} :
        data' = [data EXCEPT ![i] = content]
  BY <1>0 DEF Filled
<1>3. /\ edit[e].pc = "fill" /\ edit' = [edit EXCEPT ![e].pc = "rename"]
      /\ at' = at /\ temp' = temp /\ kept' = kept /\ clashed' = clashed
  BY DEF Filled, Edited
<1>4. i # None /\ i \in Inodes /\ MadeFor(i) = f
  BY <1>0, <1>1, <1>3 DEF Places, Inode
<1>5. /\ DOMAIN edit' = mix.edits /\ DOMAIN edit'[e] = {"pc", "map", "ino", "told"}
      /\ edit'[e].pc = "rename" /\ edit'[e].map = edit[e].map /\ edit'[e].ino = i
      /\ \A o \in mix.edits \ {e} : edit'[o] = edit[o]
  BY <1>0, <1>1, <1>3 DEF EditTypes
<1>6. DOMAIN data' = Inodes /\ data'[i] = content /\ (\A j \in Inodes \ {i} : data'[j] = data[j])
  BY <1>1, <1>2, <1>4 DEF EditTypes
<1>7. EditTypes'
  BY <1>1, <1>3, <1>5, <1>6 DEF EditTypes
<1>8. \A g, j : Inode(g, j) => Inode(g, j)'
  BY <1>1, <1>5 DEF Inode, Made, MadeFor, File, Files
<1>9. Places'
  <2>1. ASSUME NEW o \in mix.edits, edit'[o].ino # None PROVE Inode(File(o), edit[o].ino)'
    <3>1. edit'[o].ino = edit[o].ino
      BY <1>0, <1>5
    <3> QED
      BY <1>1, <1>8, <2>1, <3>1 DEF Places, File
  <2>2. ASSUME NEW o \in mix.edits, File(o) \in Files, edit'[o].pc \in {"fill", "rename"} PROVE edit'[o].ino # None
    BY <1>1, <1>4, <1>5, <2>2 DEF Places
  <2>3. ASSUME NEW g \in Files PROVE Inode(g, at[g])' /\ (temp[g] # None => Inode(g, temp[g])' /\ temp[g] # at[g])
    BY <1>1, <1>3, <1>8 DEF Places
  <2> QED
    BY <1>1, <1>3, <2>1, <2>2, <2>3 DEF Places, File
<1>10. ASSUME NEW g \in Files \ clashed' PROVE Undisturbed(g)'
  <2>1. Undisturbed(g)
    BY <1>3, <1>10 DEF FilesInv
  <2>2. at[g] \in Inodes /\ at[g] # i
    <3>1. CASE g = f
      <4>1. Course(e)
        BY <1>3, <2>1, <3>1 DEF Undisturbed, Active
      <4> QED
        BY <1>0, <1>1, <1>3, <1>4, <3>1, <4>1 DEF Places, Inode, Course
    <3>2. CASE g # f
      BY <1>1, <1>4, <3>2 DEF Places, Inode
    <3> QED
      BY <3>1, <3>2
  <2>3. Read(g)' = kept'[g]
    BY <1>3, <1>6, <2>1, <2>2 DEF Undisturbed, Read
  <2>4. \A o \in mix.edits : Active(o)' => Active(o)
    BY <1>3, <1>5 DEF Active
  <2>5. ASSUME NEW o \in mix.edits, Active(o)', File(o) = g PROVE Course(o)'
    <3>1. Course(o) /\ Active(e)
      BY <1>3, <2>1, <2>4, <2>5 DEF Undisturbed, Active
    <3>2. CASE o = e
      <4>1. ~Mixed
        <5>1. ASSUME NEW p \in mix.edits \ {e}, Active(p), edit[p].ino = i PROVE FALSE
          <6>1. File(p) = f
            BY <1>1, <1>4, <5>1 DEF Places, Inode
          <6> QED
            BY <2>1, <2>5, <3>1, <3>2, <5>1, <6>1 DEF Undisturbed
        <5> QED
          BY <1>0, <5>1
      <4>2. content = Applied(e, kept[f])
        BY <1>2, <3>1, <3>2, <4>1 DEF Course
      <4>3. temp[f] = i
        BY <1>0, <1>3, <3>1, <3>2 DEF Course
      <4> QED
        BY <1>3, <1>5, <1>6, <3>1, <3>2, <4>2, <4>3 DEF Course, File, Applied, Named
    <3>3. CASE o # e
      <4>1. g # f
        BY <2>1, <2>4, <2>5, <3>1, <3>3 DEF Undisturbed
      <4>2. edit[o].pc = "rename" => edit[o].ino # None /\ edit[o].ino \in Inodes /\ edit[o].ino # i
        BY <1>1, <1>4, <2>5, <4>1 DEF Places, Inode
      <4> QED
        BY <1>3, <1>5, <1>6, <2>5, <3>1, <3>3, <4>1, <4>2 DEF Course, File, Applied, Named
    <3> QED
      BY <3>2, <3>3
  <2> QED
    BY <1>1, <2>1, <2>3, <2>4, <2>5 DEF Undisturbed, File
<1> QED
  BY <1>1, <1>7, <1>9, <1>10 DEF FilesInv

\* What is renamed is what was filled, and the edit is acknowledged with it.
LEMMA RenamedKeeps ==
    ASSUME FilesInv, NEW e \in mix.edits, mix' = mix, File(e) \in Files, Renamed(e)
    PROVE  FilesInv'
<1> DEFINE f == File(e)
<1>1. EditTypes /\ Places /\ Files' = Files /\ Inodes' = Inodes /\ mix \in Mixes
  BY DEF FilesInv, Files, Inodes, EditTypes
<1>2. CASE temp[f] = None
  <2>1. Finished(e, "failed") /\ UNCHANGED homeVars
    BY <1>2 DEF Renamed
  <2> QED
    BY <2>1, OneEnds DEF homeVars
<1>3. CASE temp[f] # None
  <2>1. /\ edit[e].pc = "rename" /\ at' = [at EXCEPT ![f] = temp[f]] /\ temp' = [temp EXCEPT ![f] = None]
        /\ kept' = [kept EXCEPT ![f] = Applied(e, kept[f])] /\ \E told : Finished(e, told)
        /\ data' = data /\ clashed' = clashed
    BY <1>3 DEF Renamed
  <2>2. /\ DOMAIN edit' = mix.edits /\ DOMAIN edit'[e] = {"pc", "map", "ino", "told"}
        /\ edit'[e].pc = "ended" /\ edit'[e].ino = edit[e].ino
        /\ \A o \in mix.edits \ {e} : edit'[o] = edit[o]
    BY <1>1, <2>1 DEF EditTypes, Finished
  <2>3. /\ DOMAIN at' = Files /\ at'[f] = temp[f] /\ (\A g \in Files \ {f} : at'[g] = at[g])
        /\ DOMAIN temp' = Files /\ temp'[f] = None /\ (\A g \in Files \ {f} : temp'[g] = temp[g])
        /\ DOMAIN kept' = Files /\ kept'[f] = Applied(e, kept[f]) /\ (\A g \in Files \ {f} : kept'[g] = kept[g])
    BY <1>1, <2>1 DEF EditTypes
  <2>4. EditTypes'
    BY <1>1, <2>1, <2>2, <2>3 DEF EditTypes
  <2>5. \A g, j : Inode(g, j) => Inode(g, j)'
    BY <1>1, <2>2 DEF Inode, Made, MadeFor, File, Files
  <2>6. Places'
    <3>1. ASSUME NEW o \in mix.edits, edit'[o].ino # None PROVE Inode(File(o), edit[o].ino)'
      <4>1. edit'[o].ino = edit[o].ino
        BY <2>2
      <4> QED
        BY <1>1, <2>5, <3>1, <4>1 DEF Places, File
    <3>2. ASSUME NEW o \in mix.edits, File(o) \in Files, edit'[o].pc \in {"fill", "rename"} PROVE edit'[o].ino # None
      BY <1>1, <2>2, <3>2 DEF Places
    <3>3. ASSUME NEW g \in Files PROVE Inode(g, at[g])' /\ (temp'[g] # None => Inode(g, temp[g])' /\ temp'[g] # at'[g])
      <4>1. PICK a, t : a = at'[g] /\ t = temp'[g]
        OBVIOUS
      <4>2. Inode(g, a) /\ (t # None => Inode(g, t) /\ t # a)
        BY <1>1, <1>3, <2>3, <4>1 DEF Places
      <4> QED
        BY <2>5, <4>1, <4>2
    <3> QED
      BY <1>1, <3>1, <3>2, <3>3 DEF Places, File
  <2>7. ASSUME NEW g \in Files \ clashed' PROVE Undisturbed(g)'
    <3>1. Undisturbed(g)
      BY <2>1, <2>7 DEF FilesInv
    <3>2. \A o \in mix.edits : Active(o)' => Active(o) /\ o # e
      BY <2>2 DEF Active
    <3>3. Read(g)' = kept'[g]
      <4>1. CASE g = f
        <5>1. Course(e)
          BY <2>1, <3>1, <4>1 DEF Undisturbed, Active
        <5> QED
          BY <2>1, <2>3, <4>1, <5>1 DEF Course, Read
      <4>2. CASE g # f
        BY <2>1, <2>3, <3>1, <4>2 DEF Undisturbed, Read
      <4> QED
        BY <4>1, <4>2
    <3>4. ASSUME NEW o \in mix.edits, Active(o)', File(o) = g PROVE Course(o)'
      <4>1. Course(o) /\ Active(o) /\ o # e
        BY <3>1, <3>2, <3>4 DEF Undisturbed
      <4>2. g # f
        BY <2>1, <3>1, <3>4, <4>1 DEF Undisturbed, Active
      <4> QED
        BY <2>1, <2>2, <2>3, <3>4, <4>1, <4>2 DEF Course, File, Applied, Named
    <3> QED
      BY <1>1, <3>1, <3>2, <3>3, <3>4 DEF Undisturbed, File
  <2> QED
    BY <1>1, <2>4, <2>6, <2>7 DEF FilesInv
<1> QED
  BY <1>2, <1>3

LEMMA FilesStep ==
    ASSUME FilesInv, [Next]_vars
    PROVE  FilesInv'
<1>1. CASE UNCHANGED vars
  BY <1>1, FilesKept DEF vars, homeVars
<1>2. ASSUME NEW c \in Calls, Serves(c) PROVE FilesInv'
  BY <1>2, FilesKept DEF Serves, homeVars
<1>3. ASSUME NEW e \in Edits, EditStep(e) PROVE FilesInv'
  <2>1. e \in mix.edits /\ mix' = mix
    BY <1>3 DEF EditStep
  <2>2. CASE Loaded(e)
    BY <2>1, <2>2, LoadedKeeps
  <2>3. CASE Verified(e)
    <3>1. (Edited(e, "check") /\ edit[e].pc = "probe") \/ \E told : Finished(e, told)
      BY <2>3 DEF Verified
    <3>2. UNCHANGED homeVars
      BY <2>3 DEF Verified
    <3> QED
      BY <2>1, <3>1, <3>2, OneMoves, OneEnds DEF homeVars
  <2>4. CASE Checked(e)
    <3>1. (Edited(e, "open") /\ edit[e].pc = "check") \/ \E told : Finished(e, told)
      BY <2>4 DEF Checked
    <3>2. UNCHANGED homeVars
      BY <2>4 DEF Checked
    <3> QED
      BY <2>1, <3>1, <3>2, OneMoves, OneEnds DEF homeVars
  <2>5. CASE File(e) \in Files /\ (Opened(e) \/ Filled(e) \/ Renamed(e))
    BY <2>1, <2>5, OpenedKeeps, FilledKeeps, RenamedKeeps
  <2>6. CASE SkillEdited(e)
    <3>1. (Edited(e, "fill") /\ File(e) \notin Files) \/ \E told : Finished(e, told)
      BY <2>6 DEF SkillEdited, Files
    <3>2. at' = at /\ temp' = temp /\ data' = data /\ kept' = kept /\ clashed' = clashed
      BY <2>6 DEF SkillEdited
    <3>3. clashed \subseteq clashed'
      BY <3>2
    <3>4. CASE Edited(e, "fill") /\ File(e) \notin Files
      BY <2>1, <3>2, <3>3, <3>4, OneMoves
    <3>5. CASE \E told : Finished(e, told)
      BY <2>1, <3>2, <3>3, <3>5, OneEnds
    <3> QED
      BY <3>1, <3>4, <3>5
  <2> QED
    BY <1>3, <2>2, <2>3, <2>4, <2>5, <2>6 DEF EditStep
<1>4. ASSUME NEW e \in Edits, Dies(e) PROVE FilesInv'
  <2>1. e \in mix.edits /\ mix' = mix /\ Finished(e, "nothing") /\ UNCHANGED homeVars
    BY <1>4 DEF Dies
  <2> QED
    BY <2>1, OneEnds DEF homeVars
<1>5. ASSUME NEW v, NEW state, RemoteChanges(v, state) PROVE FilesInv'
  BY <1>5, FilesKept DEF RemoteChanges, homeVars
<1>6. CASE Boots
  BY <1>6, FilesKept DEF Boots, homeVars
<1>7. CASE Records \/ Drops
  BY <1>7, FilesKept DEF Records, Drops, homeVars
<1>8. CASE Crash
  <2>1. /\ mix' = mix /\ UNCHANGED homeVars
        /\ edit' = [e \in mix.edits |-> IF Active(e) /\ Edit[e].hub THEN [edit[e] EXCEPT !.pc = "ended"] ELSE edit[e]]
    BY <1>8 DEF Crash
  <2>2. \A e \in mix.edits : DOMAIN edit[e] = {"pc", "map", "ino", "told"}
    BY DEF FilesInv, EditTypes
  <2>3. ASSUME NEW e \in mix.edits PROVE Moves(e)
    <3>1. edit'[e] = edit[e] \/ edit'[e] = [edit[e] EXCEPT !.pc = "ended"]
      BY <2>1
    <3> QED
      BY <2>2, <3>1 DEF Moves
  <2> QED
    BY <2>1, <2>3, EditsMove DEF homeVars
<1> QED
  BY <1>1, <1>2, <1>3, <1>4, <1>5, <1>6, <1>7, <1>8 DEF Next

LEMMA FilesHold == Spec => []FilesInv
<1>1. FilesInv /\ [Next]_vars => FilesInv'
  BY FilesStep
<1> QED
  BY <1>1, FilesInit, PTL DEF Spec

-----------------------------------------------------------------------------
(***************************************************************************)
(* A call runs with the leave of every hook.                                 *)
(***************************************************************************)

LEMMA CallsInit == Init => CallsInv
<1> SUFFICES ASSUME Init PROVE CallsInv
  OBVIOUS
<1>1. /\ mix \in Mixes /\ DOMAIN call = mix.calls /\ hub.boot = 0 /\ hub.pc = "down"
      /\ DOMAIN hub = {"pc", "boot", "ids", "heard", "waits"}
  BY DEF Init
<1>2. ASSUME NEW c \in mix.calls PROVE CallFits(c) /\ Unopposed(c) /\ Lives(c)
  <2>1. call[c] = Quiet
    BY DEF Init
  <2>2. <<>> \in Seq({})
    OBVIOUS
  <2>3. CallFits(c)
    BY <2>1, <2>2 DEF Quiet, CallFits, CallFields, Hows
  <2>4. Unopposed(c)
    BY <2>1 DEF Quiet, Unopposed
  <2> QED
    BY <1>1, <2>1, <2>3, <2>4 DEF Lives, Quiet
<1> QED
  BY <1>1, <1>2 DEF CallsInv

\* What a call is, whatever it may expect.
SameCall(c) == \A field \in CallFields \ {"ready"} : call'[c][field] = call[c][field]

LEMMA SameFits ==
    ASSUME mix' = mix, NEW c, CallFits(c), Unopposed(c), DOMAIN call'[c] = CallFields, SameCall(c)
    PROVE  /\ CallFits(c)' /\ Unopposed(c)' /\ call'[c].boot = call[c].boot
           /\ call'[c].pc = call[c].pc /\ call'[c].end = call[c].end
<1>1. /\ call'[c].pc = call[c].pc /\ call'[c].name = call[c].name /\ call'[c].heard = call[c].heard
      /\ call'[c].to = call[c].to /\ call'[c].end = call[c].end /\ call'[c].boot = call[c].boot
  BY DEF SameCall, CallFields
<1>2. CallFits(c)'
  BY <1>1 DEF CallFits, CallFields
<1>3. Matching(c)' = Matching(c)
  BY <1>1 DEF Matching
<1>4. Unopposed(c)'
  <2>1. ASSUME NEW h, NEW a PROVE Objects(h, a)' = Objects(h, a)
    BY DEF Objects
  <2> QED
    BY <1>1, <1>3, <2>1 DEF Unopposed, Enough, Objects
<1> QED
  BY <1>1, <1>2, <1>4

\* The world changes under the calls, or nothing does.
LEMMA ShakenIs ==
    ASSUME CallsInv, call' = call \/ call' = Shaken
    PROVE  DOMAIN call' = mix.calls /\ \A c \in mix.calls : DOMAIN call'[c] = CallFields /\ SameCall(c)
<1>1. DOMAIN call = mix.calls /\ \A c \in mix.calls : DOMAIN call[c] = CallFields
  BY DEF CallsInv, CallFits
<1>2. CASE call' = call
  BY <1>1, <1>2 DEF SameCall
<1>3. CASE call' = Shaken
  <2>1. DOMAIN call' = mix.calls /\ \A c \in mix.calls : call'[c] = [call[c] EXCEPT !.ready = FALSE]
    BY <1>3 DEF Shaken
  <2>2. \A c \in mix.calls : DOMAIN call'[c] = CallFields /\ SameCall(c)
    BY <1>1, <2>1 DEF SameCall
  <2> QED
    BY <2>1, <2>2
<1> QED
  BY <1>2, <1>3

LEMMA CallsKept ==
    ASSUME CallsInv, mix' = mix, hub' = hub, call' = call \/ call' = Shaken
    PROVE  CallsInv'
<1>1. DOMAIN call' = mix.calls /\ \A c \in mix.calls : DOMAIN call'[c] = CallFields /\ SameCall(c)
  BY ShakenIs
<1>2. ASSUME NEW c \in mix.calls PROVE CallFits(c)' /\ Unopposed(c)' /\ Lives(c)'
  <2>1. CallFits(c) /\ Unopposed(c) /\ Lives(c)
    BY DEF CallsInv
  <2>2. /\ CallFits(c)' /\ Unopposed(c)' /\ call'[c].boot = call[c].boot /\ call'[c].pc = call[c].pc
    BY <1>1, <2>1, SameFits
  <2> QED
    BY <2>1, <2>2 DEF Lives
<1> QED
  BY <1>1, <1>2 DEF CallsInv

\* One call changes, in the life of the daemon it is of.
LEMMA OneCall ==
    ASSUME CallsInv, mix' = mix, hub' = hub, NEW c \in mix.calls, DOMAIN call' = mix.calls,
           \A d \in mix.calls \ {c} : call'[d] = call[d],
           CallFits(c)', Unopposed(c)', Lives(c)'
    PROVE  CallsInv'
<1>1. ASSUME NEW d \in mix.calls PROVE CallFits(d)' /\ Unopposed(d)' /\ Lives(d)'
  <2>1. CASE d = c
    BY <2>1
  <2>2. CASE d # c
    <3>1. CallFits(d) /\ Unopposed(d) /\ Lives(d) /\ call'[d] = call[d]
      BY <2>2 DEF CallsInv
    <3>2. DOMAIN call'[d] = CallFields /\ SameCall(d)
      BY <3>1 DEF SameCall, CallFits
    <3>3. CallFits(d)' /\ Unopposed(d)'
      BY <3>1, <3>2, SameFits
    <3> QED
      BY <3>1, <3>3 DEF Lives
  <2> QED
    BY <2>1, <2>2
<1> QED
  BY <1>1 DEF CallsInv

\* A call under way is under way while the daemon serves.
LEMMA UnderWay ==
    ASSUME CallsInv, NEW c \in mix.calls, call[c].pc \notin {"idle", "ended"}
    PROVE  hub.pc = "serves" /\ call[c].end = "none"
BY DEF CallsInv, CallFits, Lives

\* A call that goes on, having been heard to nobody's objection.
LEMMA GoesOn ==
    ASSUME CallsInv, NEW c \in mix.calls, mix' = mix, hub' = hub,
           call[c].pc \notin {"idle", "ended"},
           DOMAIN call' = mix.calls, \A d \in mix.calls \ {c} : call'[d] = call[d],
           DOMAIN call'[c] = CallFields, call'[c].name = call[c].name, call'[c].boot = call[c].boot,
           call'[c].heard = call[c].heard, call'[c].to = call[c].to \/ Enough(c),
           \/ call'[c].pc \in {"blocked", "asked", "stores"} /\ call'[c].end = call[c].end
           \/ call'[c].pc = "ended" /\ call'[c].end \in Hows
    PROVE  CallsInv'
<1>1. CallFits(c) /\ Unopposed(c) /\ Lives(c) /\ hub.pc = "serves" /\ call[c].end = "none"
  BY UnderWay DEF CallsInv
<1>2. CallFits(c)'
  <2>1. "none" \notin Hows
    BY DEF Hows
  <2> QED
    BY <1>1, <2>1 DEF CallFits
<1>3. Matching(c)' = Matching(c) /\ (Enough(c) => Enough(c)')
  BY DEF Matching, Enough
<1>4. Unopposed(c)'
  BY <1>1, <1>3 DEF Unopposed, Objects
<1>5. Lives(c)'
  BY <1>1 DEF Lives
<1> QED
  BY <1>2, <1>4, <1>5, OneCall

\* What a step of a call does: the call has no end yet and nothing is noted, or it has and is noted.
Progress(c) ==
    /\ DOMAIN call' = mix.calls /\ \A d \in mix.calls \ {c} : call'[d] = call[d]
    /\ \/ call'[c].end = "none" /\ UNCHANGED writer
       \/ \E how \in Hows : call'[c].end = how /\ Note(c, how)

LEMMA BeginKeeps ==
    ASSUME CallsInv, NEW c \in mix.calls, mix' = mix, hub' = hub, Begin(c)
    PROVE  CallsInv' /\ Progress(c)
<1>1. CallFits(c) /\ Unopposed(c) /\ Lives(c) /\ DOMAIN call = mix.calls /\ hub.boot \in Nat
  BY DEF CallsInv
<1>2. PICK ready, name : call' = [call EXCEPT ![c] = [call[c] EXCEPT !.pc = "hooks", !.boot = hub.boot, !.ready = ready, !.name = name]]
  BY DEF Begin
<1>3. hub.pc = "serves" /\ call[c].pc = "idle" /\ UNCHANGED writer
  BY DEF Begin
<1>4. DOMAIN call' = mix.calls /\ \A d \in mix.calls \ {c} : call'[d] = call[d]
  BY <1>1, <1>2
<1>5. /\ DOMAIN call'[c] = CallFields /\ call'[c].pc = "hooks" /\ call'[c].boot = hub.boot /\ call'[c].heard = call[c].heard
      /\ call'[c].to = call[c].to /\ call'[c].end = call[c].end
  BY <1>1, <1>2 DEF CallFits, CallFields
<1>6. call[c].heard = <<>> /\ call[c].to = None /\ call[c].end = "none"
  BY <1>1, <1>3 DEF CallFits
<1>7. CallFits(c)'
  BY <1>1, <1>5, <1>6 DEF CallFits
<1>8. Unopposed(c)'
  BY <1>5, <1>6 DEF Unopposed
<1>9. Lives(c)'
  BY <1>1, <1>3, <1>5 DEF Lives
<1> QED
  BY <1>3, <1>4, <1>5, <1>6, <1>7, <1>8, <1>9, OneCall DEF Progress

\* A call that ends, with all it was called with.
LEMMA EndsKeep ==
    ASSUME CallsInv, NEW c \in mix.calls, mix' = mix, hub' = hub, call[c].pc \notin {"idle", "ended"},
           NEW how \in Hows, Ends(c, how)
    PROVE  CallsInv' /\ Progress(c)
<1>1. DOMAIN call = mix.calls /\ DOMAIN call[c] = CallFields
  BY DEF CallsInv, CallFits
<1>2. call' = [call EXCEPT ![c].pc = "ended", ![c].end = how] /\ Note(c, how)
  BY DEF Ends, Ended
<1>3. DOMAIN call' = mix.calls /\ \A d \in mix.calls \ {c} : call'[d] = call[d]
  BY <1>1, <1>2
<1>4. /\ DOMAIN call'[c] = CallFields /\ call'[c].name = call[c].name /\ call'[c].boot = call[c].boot
      /\ call'[c].heard = call[c].heard /\ call'[c].to = call[c].to
      /\ call'[c].pc = "ended" /\ call'[c].end = how
  BY <1>1, <1>2 DEF CallFields
<1>5. CallsInv'
  BY <1>3, <1>4, GoesOn
<1> QED
  BY <1>2, <1>3, <1>4, <1>5 DEF Progress

\* A call that is answered by whom it goes to.
LEMMA AnsweredKeeps ==
    ASSUME CallsInv, NEW c \in mix.calls, mix' = mix, hub' = hub, call[c].pc \notin {"idle", "ended"}, Enough(c),
           NEW how \in Hows, NEW to, Answered(c, to, how)
    PROVE  CallsInv' /\ Progress(c)
<1>1. DOMAIN call = mix.calls /\ DOMAIN call[c] = CallFields
  BY DEF CallsInv, CallFits
<1>2. call' = [[call EXCEPT ![c].pc = "ended", ![c].end = how] EXCEPT ![c].to = to] /\ Note(c, how)
  BY DEF Answered, Ended
<1>3. DOMAIN call' = mix.calls /\ \A d \in mix.calls \ {c} : call'[d] = call[d]
  BY <1>1, <1>2
<1>4. /\ DOMAIN call'[c] = CallFields /\ call'[c].name = call[c].name /\ call'[c].boot = call[c].boot
      /\ call'[c].heard = call[c].heard
      /\ call'[c].pc = "ended" /\ call'[c].end = how
  BY <1>1, <1>2 DEF CallFields
<1>5. CallsInv'
  BY <1>3, <1>4, GoesOn
<1> QED
  BY <1>2, <1>3, <1>4, <1>5 DEF Progress

\* A call that is passed on, and waits for an answer.
LEMMA PassedKeeps ==
    ASSUME CallsInv, NEW c \in mix.calls, mix' = mix, hub' = hub, call[c].pc = "hooks", Enough(c),
           NEW pc \in {"asked", "stores"}, UNCHANGED writer,
           \/ \E to, header : call' = [call EXCEPT ![c].pc = pc, ![c].to = to, ![c].header = header]
           \/ \E to : call' = [call EXCEPT ![c].pc = pc, ![c].to = to]
    PROVE  CallsInv' /\ Progress(c)
<1>1. DOMAIN call = mix.calls /\ DOMAIN call[c] = CallFields /\ call[c].end = "none"
  BY UnderWay DEF CallsInv, CallFits
<1>3. DOMAIN call' = mix.calls /\ \A d \in mix.calls \ {c} : call'[d] = call[d]
  BY <1>1
<1>4. /\ DOMAIN call'[c] = CallFields /\ call'[c].name = call[c].name /\ call'[c].boot = call[c].boot
      /\ call'[c].heard = call[c].heard
      /\ call'[c].pc = pc /\ call'[c].end = call[c].end
  <2>1. CASE \E to : call' = [call EXCEPT ![c].pc = pc, ![c].to = to]
    BY <1>1, <2>1 DEF CallFields
  <2>2. CASE \E to, header : call' = [call EXCEPT ![c].pc = pc, ![c].to = to, ![c].header = header]
    <3>1. PICK to, header : call' = [call EXCEPT ![c].pc = pc, ![c].to = to, ![c].header = header]
      BY <2>2
    <3>2. call'[c] = [call[c] EXCEPT !.pc = pc, !.to = to, !.header = header]
      BY <1>1, <3>1
    <3> QED
      BY <1>1, <3>2 DEF CallFields
  <2> QED
    BY <2>1, <2>2
<1>5. CallsInv'
  BY <1>3, <1>4, GoesOn
<1> QED
  BY <1>1, <1>3, <1>4, <1>5 DEF Progress

\* One more hook is heard, and what it said is no objection.
LEMMA AskHookKeeps ==
    ASSUME CallsInv, NEW c \in mix.calls, mix' = mix, hub' = hub, AskHook(c)
    PROVE  CallsInv' /\ Progress(c)
<1> DEFINE h == Matching(c)[Len(call[c].heard) + 1]
<1>1. /\ CallFits(c) /\ Unopposed(c) /\ Lives(c) /\ DOMAIN call = mix.calls
      /\ call[c].pc = "hooks" /\ call[c].end = "none" /\ DOMAIN call[c] = CallFields
  BY UnderWay DEF CallsInv, AskHook, CallFits
<1>2. PICK answer : IF Stuck(c, answer) THEN call' = [call EXCEPT ![c].pc = "blocked"] /\ UNCHANGED writer
                    ELSE IF Objects(h, answer) THEN Ends(c, "refused")
                    ELSE call' = [call EXCEPT ![c].heard = Append(call[c].heard, answer)] /\ UNCHANGED writer
  BY DEF AskHook
<1>0. CASE Stuck(c, answer)
  <2>1. call' = [call EXCEPT ![c].pc = "blocked"] /\ UNCHANGED writer
    BY <1>0, <1>2
  <2>2. DOMAIN call' = mix.calls /\ \A d \in mix.calls \ {c} : call'[d] = call[d]
    BY <1>1, <2>1
  <2>3. /\ DOMAIN call'[c] = CallFields /\ call'[c].name = call[c].name /\ call'[c].boot = call[c].boot
        /\ call'[c].heard = call[c].heard /\ call'[c].to = call[c].to
        /\ call'[c].pc = "blocked" /\ call'[c].end = call[c].end
    BY <1>1, <2>1 DEF CallFields
  <2>4. CallsInv'
    BY <1>1, <2>2, <2>3, GoesOn
  <2> QED
    BY <1>1, <2>1, <2>2, <2>3, <2>4 DEF Progress
<1>3. CASE ~Stuck(c, answer) /\ Objects(h, answer)
  BY <1>1, <1>2, <1>3, EndsKeep DEF Hows
<1>4. CASE ~Stuck(c, answer) /\ ~Objects(h, answer)
  <2>1. call' = [call EXCEPT ![c].heard = Append(call[c].heard, answer)] /\ UNCHANGED writer
    BY <1>2, <1>4
  <2>2. DOMAIN call' = mix.calls /\ \A d \in mix.calls \ {c} : call'[d] = call[d]
    BY <1>1, <2>1
  <2>3. /\ DOMAIN call'[c] = CallFields /\ call'[c].name = call[c].name /\ call'[c].boot = call[c].boot
        /\ call'[c].heard = Append(call[c].heard, answer) /\ call'[c].to = call[c].to
        /\ call'[c].pc = call[c].pc /\ call'[c].end = call[c].end
    BY <1>1, <2>1 DEF CallFields
  <2>4. PICK S : call[c].heard \in Seq(S)
    BY <1>1 DEF CallFits
  <2>5. PICK heard : heard = call[c].heard
    OBVIOUS
  <2>6. /\ heard \in Seq(S \cup {answer}) /\ call'[c].heard \in Seq(S \cup {answer})
        /\ Len(call'[c].heard) = Len(heard) + 1 /\ Len(heard) \in Nat
        /\ (\A i \in 1 .. Len(heard) : call'[c].heard[i] = heard[i])
        /\ call'[c].heard[Len(heard) + 1] = answer
    BY <2>3, <2>4, <2>5
  <2>7. CallFits(c)'
    BY <1>1, <2>3, <2>6 DEF CallFits
  <2>8. Matching(c)' = Matching(c)
    BY <2>3 DEF Matching
  <2>9. ASSUME NEW i \in 1 .. Len(call'[c].heard) PROVE ~Objects(Matching(c)[i], call'[c].heard[i])
    <3>1. CASE i \in 1 .. Len(heard)
      BY <1>1, <2>5, <2>6, <3>1 DEF Unopposed
    <3>2. CASE i = Len(heard) + 1
      BY <1>4, <2>5, <2>6, <3>2
    <3> QED
      BY <2>6, <3>1, <3>2
  <2>10. Unopposed(c)'
    <3>1. \A g, a : Objects(g, a)' <=> Objects(g, a)
      BY DEF Objects
    <3>2. call'[c].to = None
      BY <1>1, <2>3 DEF CallFits
    <3> QED
      BY <2>8, <2>9, <3>1, <3>2 DEF Unopposed, Objects
  <2> QED
    BY <1>1, <2>1, <2>2, <2>3, <2>7, <2>10, OneCall DEF Progress, Lives
<1> QED
  BY <1>0, <1>3, <1>4

LEMMA ServesKeeps ==
    ASSUME CallsInv, NEW c, Serves(c)
    PROVE  /\ CallsInv' /\ Progress(c) /\ c \in mix.calls /\ mix' = mix /\ hub' = hub
           /\ file' = file /\ dropped' = dropped
<1>1. c \in mix.calls /\ mix' = mix /\ hub' = hub /\ file' = file /\ dropped' = dropped /\ Handles(c)
  BY DEF Serves
<1>2. {"ok", "failed", "refused", "unstored", "unrouted"} \subseteq Hows
  BY DEF Hows
<1>3. CASE Begin(c)
  BY <1>1, <1>3, BeginKeeps
<1>4. CASE AskHook(c)
  BY <1>1, <1>4, AskHookKeeps
<1>5. CASE Route(c)
  <2>1. call[c].pc = "hooks" /\ Enough(c) /\ (Elsewhere(c) \/ Reads(c) \/ Sends(c) \/ Supplies(c))
    BY <1>5 DEF Route
  <2>2. CASE \E to, how : how \in {"ok", "failed", "unstored"} /\ Answered(c, to, how)
    BY <1>1, <1>2, <2>1, <2>2, AnsweredKeeps
  <2>3. CASE \E to, header : call' = [call EXCEPT ![c].pc = "asked", ![c].to = to, ![c].header = header] /\ UNCHANGED writer
    BY <1>1, <2>1, <2>3, PassedKeeps
  <2>4. CASE \E to : call' = [call EXCEPT ![c].pc = "stores", ![c].to = to] /\ UNCHANGED writer
    BY <1>1, <2>1, <2>4, PassedKeeps
  <2>5. Elsewhere(c) => \/ \E to, how : how \in {"ok", "failed", "unstored"} /\ Answered(c, to, how)
                        \/ Ends(c, "unrouted")
    BY DEF Elsewhere
  <2>9. CASE Ends(c, "unrouted")
    BY <1>1, <1>2, <2>1, <2>9, EndsKeep
  <2>6. Reads(c) => \E to, how : how \in {"ok", "failed", "unstored"} /\ Answered(c, to, how)
    BY DEF Reads
  <2>7. Sends(c) => \/ \E to, how : how \in {"ok", "failed", "unstored"} /\ Answered(c, to, how)
                    \/ \E to, header : call' = [call EXCEPT ![c].pc = "asked", ![c].to = to, ![c].header = header] /\ UNCHANGED writer
    BY DEF Sends
  <2>8. Supplies(c) => \/ \E to, how : how \in {"ok", "failed", "unstored"} /\ Answered(c, to, how)
                       \/ \E to : call' = [call EXCEPT ![c].pc = "stores", ![c].to = to] /\ UNCHANGED writer
    BY DEF Supplies
  <2> QED
    BY <1>1, <2>1, <2>2, <2>3, <2>4, <2>5, <2>6, <2>7, <2>8, <2>9
<1>6. CASE Answer(c)
  BY <1>1, <1>2, <1>6, EndsKeep DEF Answer
<1>7. CASE Stored(c)
  BY <1>1, <1>2, <1>7, EndsKeep DEF Stored
<1> QED
  BY <1>1, <1>3, <1>4, <1>5, <1>6, <1>7 DEF Handles

\* The daemon changes, between two lives or in one, and no call is of the life that begins.
LEMMA NewLife ==
    ASSUME CallsInv, mix' = mix, call' = call, DOMAIN hub' = {"pc", "boot", "ids", "heard", "waits"},
           hub.pc # "serves", hub'.boot \in {hub.boot, hub.boot + 1}, hub'.boot = hub.boot => hub.pc = "probes"
    PROVE  CallsInv' /\ \A c \in mix.calls : call[c].boot < hub'.boot
<1>1. hub.boot \in Nat /\ hub'.boot \in Nat /\ DOMAIN call' = mix.calls /\ mix' \in Mixes
  BY DEF CallsInv
<1>2. ASSUME NEW c \in mix.calls PROVE CallFits(c)' /\ Unopposed(c)' /\ Lives(c)' /\ call[c].boot < hub'.boot
  <2>1. CallFits(c) /\ Unopposed(c) /\ Lives(c)
    BY DEF CallsInv
  <2>2. DOMAIN call'[c] = CallFields /\ SameCall(c)
    BY <2>1 DEF SameCall, CallFits
  <2>3. CallFits(c)' /\ Unopposed(c)'
    BY <2>1, <2>2, SameFits
  <2>4. call[c].boot < hub'.boot
    BY <1>1, <2>1 DEF Lives
  <2> QED
    BY <1>1, <2>1, <2>3, <2>4 DEF Lives
<1> QED
  BY <1>1, <1>2 DEF CallsInv

\* The daemon boots: another life begins with no call in it.
LEMMA BootsKeeps ==
    ASSUME CallsInv, mix' = mix, call' = call, Load \/ Probe \/ Opens
    PROVE  /\ CallsInv' /\ hub'.pc # "down" /\ hub.boot \in Nat /\ hub'.boot \in Nat /\ hub.boot <= hub'.boot
           /\ hub.pc # "serves" /\ (hub'.boot = hub.boot => hub.pc # "down")
           /\ \A c \in mix.calls : call[c].boot < hub'.boot
<1> USE DEF CallsInv
<1>1. CASE Load
  <2>1. /\ hub.pc = "down" /\ hub'.pc \in {"probes", "failed"} /\ hub'.boot = hub.boot + 1
        /\ DOMAIN hub' = {"pc", "boot", "ids", "heard", "waits"}
    BY <1>1 DEF Load
  <2> QED
    BY <2>1, NewLife
<1>2. CASE Probe
  <2>1. hub.pc = "probes" /\ hub'.pc = hub.pc /\ hub'.boot = hub.boot /\ DOMAIN hub' = {"pc", "boot", "ids", "heard", "waits"}
    BY <1>2 DEF Probe
  <2> QED
    BY <2>1, NewLife DEF Lives
<1>3. CASE Opens
  <2>1. /\ hub.pc = "probes" /\ hub'.pc \in {"serves", "failed"} /\ hub'.boot = hub.boot
        /\ DOMAIN hub' = {"pc", "boot", "ids", "heard", "waits"}
    BY <1>3 DEF Opens
  <2> QED
    BY <2>1, NewLife DEF Lives
<1> QED
  BY <1>1, <1>2, <1>3

\* The daemon is killed, and its calls are lost; those that had ended stay as they were.
Lost ==
    /\ DOMAIN call' = mix.calls
    /\ \A c \in mix.calls :
         IF call[c].pc \in {"idle", "ended"} THEN call'[c] = call[c]
         ELSE call'[c] = [call[c] EXCEPT !.pc = "ended", !.end = "lost"]

LEMMA CrashKeeps ==
    ASSUME CallsInv, Crash
    PROVE  CallsInv'
<1>1. mix' = mix /\ Lost /\ hub' = [hub EXCEPT !.pc = "down", !.waits = {}]
  BY DEF Crash, Lost
<1>2. hub'.pc = "down" /\ hub'.boot = hub.boot /\ DOMAIN hub' = {"pc", "boot", "ids", "heard", "waits"} /\ hub.boot \in Nat
  BY <1>1 DEF CallsInv
<1>3. ASSUME NEW c \in mix.calls PROVE CallFits(c)' /\ Unopposed(c)' /\ Lives(c)'
  <2>1. CallFits(c) /\ Unopposed(c) /\ Lives(c)
    BY DEF CallsInv
  <2>2. CASE call[c].pc \in {"idle", "ended"}
    <3>1. call'[c] = call[c] /\ DOMAIN call'[c] = CallFields /\ SameCall(c)
      BY <1>1, <2>1, <2>2 DEF Lost, SameCall, CallFits
    <3>2. CallFits(c)' /\ Unopposed(c)'
      BY <1>1, <2>1, <3>1, SameFits
    <3> QED
      BY <1>2, <2>1, <2>2, <3>1, <3>2 DEF Lives
  <2>3. CASE call[c].pc \notin {"idle", "ended"}
    <3>1. /\ DOMAIN call'[c] = CallFields /\ call'[c].pc = "ended" /\ call'[c].end = "lost" /\ call'[c].name = call[c].name
          /\ call'[c].heard = call[c].heard /\ call'[c].to = call[c].to /\ call'[c].boot = call[c].boot
      BY <1>1, <2>1, <2>3 DEF Lost, CallFits, CallFields
    <3>2. CallFits(c)'
      BY <2>1, <3>1 DEF CallFits, Hows
    <3>3. Matching(c)' = Matching(c)
      BY <1>1, <3>1 DEF Matching
    <3>4. Unopposed(c)'
      BY <2>1, <3>1, <3>3 DEF Unopposed, Enough, Objects
    <3> QED
      BY <1>2, <2>1, <3>1, <3>2, <3>4 DEF Lives
  <2> QED
    BY <2>2, <2>3
<1> QED
  BY <1>1, <1>2, <1>3 DEF CallsInv, Lost

\* What an edit, a death of an editor or a change of a remote does to the calls: nothing, or it shakes them.
LEMMA OthersKeep ==
    ASSUME CallsInv,
           \/ \E e \in Edits : EditStep(e) \/ Dies(e)
           \/ \E v \in DOMAIN Wants, state \in {"up", "down", "slow"} : RemoteChanges(v, state)
    PROVE  mix' = mix /\ hub' = hub /\ (call' = call \/ call' = Shaken) /\ UNCHANGED recordVars
<1>1. ASSUME NEW e \in Edits, EditStep(e) PROVE mix' = mix /\ hub' = hub /\ (call' = call \/ call' = Shaken) /\ UNCHANGED recordVars
  <2>1. Loaded(e) => call' = call
    BY DEF Loaded
  <2>2. Verified(e) \/ Checked(e) => call' = call
    BY DEF Verified, Checked
  <2>3. Opened(e) \/ Filled(e) \/ Renamed(e) => call' = call \/ call' = Shaken
    BY DEF Opened, Filled, Renamed
  <2>4. SkillEdited(e) => call' = Shaken
    BY DEF SkillEdited
  <2>5. mix' = mix /\ hub' = hub /\ UNCHANGED recordVars
    BY <1>1 DEF EditStep
  <2> QED
    BY <1>1, <2>1, <2>2, <2>3, <2>4, <2>5 DEF EditStep
<1>2. ASSUME NEW e \in Edits, Dies(e) PROVE mix' = mix /\ hub' = hub /\ call' = call /\ UNCHANGED recordVars
  BY <1>2 DEF Dies
<1>3. ASSUME NEW v \in DOMAIN Wants, NEW state, RemoteChanges(v, state)
      PROVE mix' = mix /\ hub' = hub /\ call' = Shaken /\ UNCHANGED recordVars
  BY <1>3 DEF RemoteChanges
<1> QED
  BY <1>1, <1>2, <1>3

LEMMA CallsStep ==
    ASSUME CallsInv, [Next]_vars
    PROVE  CallsInv'
<1>1. CASE UNCHANGED vars
  BY <1>1, CallsKept DEF vars
<1>2. ASSUME NEW c \in Calls, Serves(c) PROVE CallsInv'
  BY <1>2, ServesKeeps
<1>3. CASE \/ \E e \in Edits : EditStep(e) \/ Dies(e)
           \/ \E v \in DOMAIN Wants, state \in {"up", "down", "slow"} : RemoteChanges(v, state)
  BY <1>3, OthersKeep, CallsKept
<1>4. CASE Boots
  BY <1>4, BootsKeeps DEF Boots
<1>5. CASE Records \/ Drops
  BY <1>5, CallsKept DEF Records, Drops
<1>6. CASE Crash
  BY <1>6, CrashKeeps
<1> QED
  BY <1>1, <1>2, <1>3, <1>4, <1>5, <1>6 DEF Next

LEMMA CallsHold == Spec => []CallsInv
<1>1. CallsInv /\ [Next]_vars => CallsInv'
  BY CallsStep
<1> QED
  BY <1>1, CallsInit, PTL DEF Spec

\* A call runs only when every hook that matches it let it: silence or an approval of the one is no
\* answer of the next, and a hook that fails or hangs refuses unless it was marked fail_open
\* (Hooks::check), however many hooks there are.
THEOREM HooksGuard == Spec => []GuardHolds
<1>1. CallsInv => GuardHolds
  <2> SUFFICES ASSUME CallsInv PROVE GuardHolds
    OBVIOUS
  <2>1. ASSUME NEW c \in mix.calls, call[c].to # None, NEW i \in 1 .. Len(Matching(c))
        PROVE  i \in DOMAIN call[c].heard /\ ~Objects(Matching(c)[i], call[c].heard[i])
    <3>1. CallFits(c) /\ Unopposed(c)
      BY DEF CallsInv
    <3>2. PICK S : call[c].heard \in Seq(S)
      BY <3>1 DEF CallFits
    <3>3. i \in 1 .. Len(call[c].heard) /\ DOMAIN call[c].heard = 1 .. Len(call[c].heard)
      BY <2>1, <3>1, <3>2 DEF Unopposed, Enough
    <3> QED
      BY <3>1, <3>3 DEF Unopposed
  <2> QED
    BY <2>1 DEF GuardHolds
<1> QED
  BY <1>1, CallsHold, PTL

-----------------------------------------------------------------------------
(***************************************************************************)
(* The record tells what happened.                                           *)
(***************************************************************************)

LEMMA RecordInit == Init => RecordInv
<1> SUFFICES ASSUME Init PROVE RecordInv
  OBVIOUS
<1>1. /\ writer = [queue |-> <<>>, doing |-> {}, count |-> [k \in Keys |-> 0], sent |-> 0]
      /\ file = [k \in Keys |-> <<>>] /\ hub.pc = "down" /\ dropped = {}
  BY DEF Init
<1>2. \A k \in Keys : file[k] = <<>> /\ Len(file[k]) = 0
  BY <1>1
<1>3. RecordTypes
  BY <1>1, <1>2 DEF RecordTypes
<1>4. LinesInOrder /\ DoingInOrder /\ QueueInOrder /\ CountsAhead
  BY <1>1, <1>2 DEF LinesInOrder, DoingInOrder, QueueInOrder, CountsAhead
<1>5. Silent
  BY <1>1, <1>2 DEF Silent
<1>6. Told /\ PiecesDropped
  BY <1>1 DEF Told, PiecesDropped
<1> QED
  BY <1>3, <1>4, <1>5, <1>6 DEF RecordInv

\* What a record is made of.
LEMMA LinesTyped ==
    ASSUME RecordTypes
    PROVE  /\ \A k \in Keys : /\ file[k] \in Seq(LineOf) /\ Len(file[k]) \in Nat /\ DOMAIN file[k] = 1 .. Len(file[k])
                              /\ \A i \in 1 .. Len(file[k]) :
                                   /\ file[k][i] \in LineOf /\ file[k][i].nth \in Nat
                                   /\ file[k][i].seq \in Nat /\ file[k][i].boot \in Nat
           /\ \A line \in writer.doing : /\ line.nth \in Nat /\ line.seq \in Nat /\ line.boot \in Nat
                                         /\ Ask[line.call].key \in Keys /\ line.call \in Calls
<1>1. ASSUME NEW k \in Keys, NEW i \in 1 .. Len(file[k])
      PROVE  /\ file[k][i] \in LineOf /\ file[k][i].nth \in Nat /\ file[k][i].seq \in Nat /\ file[k][i].boot \in Nat
  <2>1. PICK lines \in Seq(LineOf) : lines = file[k]
    BY DEF RecordTypes
  <2>2. lines[i] \in LineOf
    BY <2>1
  <2> QED
    BY <2>1, <2>2 DEF LineOf
<1>2. ASSUME NEW k \in Keys PROVE file[k] \in Seq(LineOf) /\ Len(file[k]) \in Nat /\ DOMAIN file[k] = 1 .. Len(file[k])
  BY DEF RecordTypes
<1>3. \A line \in writer.doing : /\ line.nth \in Nat /\ line.seq \in Nat /\ line.boot \in Nat
                                 /\ Ask[line.call].key \in Keys /\ line.call \in Calls
  BY DEF RecordTypes, LineOf, Faithful
<1> QED
  BY <1>1, <1>2, <1>3

LEMMA QueueTyped ==
    ASSUME RecordTypes
    PROVE  /\ writer.queue \in Seq(Draft) /\ Len(writer.queue) \in Nat /\ DOMAIN writer.queue = 1 .. Len(writer.queue)
           /\ \A i \in 1 .. Len(writer.queue) :
                /\ writer.queue[i] \in Draft /\ writer.queue[i].nth \in Nat
                /\ Ask[writer.queue[i].call].key \in Keys /\ Faithful(writer.queue[i])
<1>1. writer.queue \in Seq(Draft)
  BY DEF RecordTypes
<1>2. ASSUME NEW i \in 1 .. Len(writer.queue) PROVE writer.queue[i] \in Draft
  BY <1>1
<1>3. ASSUME NEW i \in 1 .. Len(writer.queue) PROVE Faithful(writer.queue[i])
  BY DEF RecordTypes
<1> QED
  BY <1>1, <1>2, <1>3 DEF Draft, Faithful

\* A key is a constant, and so is what a draft is faithful to.
LEMMA SameRecord ==
    ASSUME writer' = writer, file' = file, dropped' = dropped, hub' = hub, RecordInv
    PROVE  /\ RecordTypes' /\ LinesInOrder' /\ DoingInOrder' /\ QueueInOrder' /\ CountsAhead' /\ Silent'
           /\ PiecesDropped' /\ Sound' = Sound
<1> USE DEF RecordInv
<1>1. RecordTypes'
  BY DEF RecordTypes, Faithful
<1>2. LinesInOrder'
  BY DEF LinesInOrder
<1>3. DoingInOrder' /\ QueueInOrder' /\ CountsAhead'
  BY DEF DoingInOrder, QueueInOrder, CountsAhead, Ours
<1>4. Silent'
  BY DEF Silent
<1>5. Sound' = Sound
  BY DEF Sound
<1>6. PiecesDropped'
  BY DEF PiecesDropped, Ours
<1> QED
  BY <1>1, <1>2, <1>3, <1>4, <1>5, <1>6

\* What was told of the calls stays told: no draft is lost but what the disk refused, and no call
\* changes its end.
LEMMA TellsKept ==
    ASSUME Told, mix' = mix, hub' = hub, dropped \subseteq dropped',
           \A c \in mix.calls : call'[c].end = call[c].end /\ call'[c].boot = call[c].boot,
           \A draft \in Sound : \/ draft.call \in dropped'
                                 \/ \E same \in Sound' : same.call = draft.call /\ same.how = draft.how
    PROVE  Told'
<1> SUFFICES ASSUME hub.pc = "serves", NEW c \in mix.calls,
                    call[c].end \in {"ok", "failed", "refused"}, call[c].boot = hub.boot, Ask[c].key # None
             PROVE  c \in dropped' \/ \E draft \in Sound' : draft.call = c /\ draft.how = call[c].end
  BY DEF Told
<1>1. c \in dropped \/ \E draft \in Sound : draft.call = c /\ draft.how = call[c].end
  BY DEF Told
<1> QED
  BY <1>1

LEMMA RecordKept ==
    ASSUME RecordInv, CallsInv, mix' = mix, hub' = hub, call' = call \/ call' = Shaken, UNCHANGED recordVars
    PROVE  RecordInv'
<1>1. writer' = writer /\ file' = file /\ dropped' = dropped
  BY DEF recordVars
<1>2. \A c \in mix.calls : call'[c].end = call[c].end /\ call'[c].boot = call[c].boot
  BY ShakenIs DEF SameCall, CallFields
<1>3. Told'
  BY <1>1, <1>2, SameRecord, TellsKept DEF RecordInv
<1> QED
  BY <1>1, <1>3, SameRecord DEF RecordInv

\* A call is handled while the daemon serves.
LEMMA HandledServes ==
    ASSUME CallsInv, NEW c \in mix.calls, Handles(c)
    PROVE  hub.pc = "serves"
<1>1. CASE Begin(c)
  BY <1>1 DEF Begin
<1>2. CASE AskHook(c) \/ Route(c) \/ Answer(c) \/ Stored(c)
  BY <1>2, UnderWay DEF AskHook, Route, Answer, Stored
<1> QED
  BY <1>1, <1>2 DEF Handles

\* A call that ends is noted behind all that was noted, and its draft says how it ended.
LEMMA NoteKeeps ==
    ASSUME RecordInv, hub' = hub, file' = file, dropped' = dropped, hub.pc = "serves", NEW c \in Calls, NEW how \in Hows, Note(c, how)
    PROVE  /\ RecordTypes' /\ LinesInOrder' /\ DoingInOrder' /\ QueueInOrder' /\ CountsAhead' /\ Silent'
           /\ PiecesDropped' /\ Sound \subseteq Sound'
           /\ Noted(c, how) => \E draft \in Sound' : draft.call = c /\ draft.how = how
<1> USE DEF RecordInv
<1>1. CASE ~Noted(c, how)
  <2>1. writer' = writer
    BY <1>1 DEF Note
  <2> QED
    BY <1>1, <2>1, SameRecord
<1>2. CASE Noted(c, how)
  <2>0. PICK d : d = [call |-> c, args |-> Capture(Ask[c].args), how |-> how, nth |-> writer.sent + 1]
    OBVIOUS
  <2>1. writer' = [writer EXCEPT !.queue = Append(writer.queue, d), !.sent = writer.sent + 1]
    BY <1>2, <2>0 DEF Note
  <2>2. DOMAIN writer = {"queue", "doing", "count", "sent"} /\ writer.queue \in Seq(Draft) /\ writer.sent \in Nat
    BY DEF RecordTypes
  <2>3. /\ DOMAIN writer' = {"queue", "doing", "count", "sent"} /\ writer'.queue = Append(writer.queue, d)
        /\ writer'.doing = writer.doing /\ writer'.count = writer.count /\ writer'.sent = writer.sent + 1
    BY <2>1, <2>2
  <2>4. d \in Draft /\ Faithful(d) /\ d.nth = writer.sent + 1
    <3>1. Capture(Ask[c].args) \in Args
      BY DEF Args
    <3>2. Ask[c].key \in Keys
      BY <1>2 DEF Noted, Keys
    <3> QED
      BY <2>0, <2>2, <3>1, <3>2 DEF Draft, Faithful
  <2>5. PICK q, n : q = writer.queue /\ n = Len(writer.queue)
    OBVIOUS
  <2>6. /\ n \in Nat /\ Len(writer'.queue) = n + 1 /\ writer'.queue \in Seq(Draft) /\ writer'.queue[n + 1] = d
        /\ \A i \in 1 .. n : writer'.queue[i] = q[i] /\ q[i] \in Draft
    BY <2>2, <2>3, <2>4, <2>5
  <2>7. RecordTypes'
    <3>1. \A i \in 1 .. n : Faithful(writer'.queue[i])
      BY <2>5, <2>6, QueueTyped
    <3>2. \A i \in 1 .. Len(writer'.queue) : Faithful(writer'.queue[i])
      BY <2>4, <2>6, <3>1
    <3> QED
      BY <2>2, <2>3, <2>6, <3>2 DEF RecordTypes, Faithful
  <2>8. LinesInOrder'
    BY DEF LinesInOrder
  <2>9. DoingInOrder'
    <3>1. \A line \in writer.doing : line.nth \in Nat
      BY DEF RecordTypes, LineOf
    <3>2. \A line \in writer.doing : \A i \in 1 .. Len(writer'.queue) : line.nth < writer'.queue[i].nth
      BY <2>2, <2>4, <2>5, <2>6, <3>1 DEF DoingInOrder
    <3> QED
      BY <2>2, <2>3, <3>1, <3>2 DEF DoingInOrder, Ours
  <2>10. QueueInOrder'
    <3>1. \A i \in 1 .. n : q[i].nth \in Nat /\ q[i].nth <= writer.sent
      BY <2>5, QueueTyped DEF QueueInOrder
    <3>2. \A k \in Keys : \A m \in 1 .. Len(file[k]) : file[k][m].nth \in Nat
      BY LinesTyped
    <3>3. ASSUME NEW i \in 1 .. Len(writer'.queue)
          PROVE  /\ writer'.queue[i].nth <= writer'.sent
                 /\ \A j \in 1 .. Len(writer'.queue) : i < j => writer'.queue[i].nth < writer'.queue[j].nth
      <4>1. writer'.queue[i].nth <= writer'.sent
        BY <2>2, <2>3, <2>4, <2>6, <3>1
      <4>2. ASSUME NEW j \in 1 .. n, i < j PROVE q[i].nth < q[j].nth
        BY <2>5, <2>6, <4>2 DEF QueueInOrder
      <4>3. ASSUME NEW j \in 1 .. n + 1, i < j PROVE writer'.queue[i].nth < writer'.queue[j].nth
        <5>1. i \in 1 .. n
          BY <2>6, <4>3
        <5>2. CASE j = n + 1
          <6>1. writer'.queue[i].nth = q[i].nth /\ q[i].nth \in Nat /\ q[i].nth <= writer.sent
            BY <2>6, <3>1, <5>1
          <6>2. writer'.queue[j].nth = writer.sent + 1
            BY <2>4, <2>6, <5>2
          <6> QED
            BY <2>2, <6>1, <6>2
        <5>3. CASE j \in 1 .. n
          BY <2>6, <4>2, <4>3, <5>1, <5>3
        <5> QED
          BY <2>6, <5>2, <5>3
      <4> QED
        BY <2>6, <4>1, <4>3
    <3>4. ASSUME NEW i \in 1 .. Len(writer'.queue), NEW k \in Keys, NEW m \in 1 .. Len(file[k]), Ours(file[k][m])
          PROVE  file[k][m].nth < writer'.queue[i].nth
      <4>1. CASE i \in 1 .. n
        BY <2>5, <2>6, <3>4, <4>1 DEF QueueInOrder
      <4>2. CASE i = n + 1
        <5>1. file[k][m].nth <= writer.sent
          BY <3>4 DEF CountsAhead
        <5> QED
          BY <2>2, <2>4, <2>6, <3>2, <4>2, <5>1
      <4> QED
        BY <2>6, <4>1, <4>2
    <3> QED
      BY <3>3, <3>4 DEF QueueInOrder, Ours
  <2>11. CountsAhead'
    <3>1. \A k \in Keys : \A m \in 1 .. Len(file[k]) : file[k][m].nth \in Nat
      BY LinesTyped
    <3> QED
      BY <2>2, <2>3, <3>1 DEF CountsAhead, Ours
  <2>12. Silent'
    BY DEF Silent
  <2>14. PiecesDropped'
    BY DEF PiecesDropped, Ours
  <2>13. Sound \subseteq Sound' /\ d \in Sound'
    <3>1. ToSet(writer.queue) \subseteq ToSet(writer'.queue) /\ d \in ToSet(writer'.queue)
      <4>1. DOMAIN writer.queue = 1 .. n /\ DOMAIN writer'.queue = 1 .. n + 1
        BY <2>2, <2>5, <2>6
      <4> QED
        BY <2>5, <2>6, <4>1 DEF ToSet
    <3> QED
      BY <2>3, <3>1 DEF Sound
  <2> QED
    BY <2>0, <2>7, <2>8, <2>9, <2>10, <2>11, <2>12, <2>13, <2>14
<1> QED
  BY <1>1, <1>2

\* A call that goes on is not told of; one that ends is, unless its credential was not stored.
LEMMA ServesRecords ==
    ASSUME RecordInv, CallsInv, NEW c \in Calls, Serves(c)
    PROVE  RecordInv'
<1>1. Progress(c) /\ c \in mix.calls /\ mix' = mix /\ hub' = hub /\ file' = file /\ dropped' = dropped
  BY ServesKeeps
<1>2. \A d \in mix.calls \ {c} : call'[d] = call[d]
  BY <1>1 DEF Progress
<1>3. CASE call'[c].end = "none" /\ UNCHANGED writer
  <2>1. Told'
    BY <1>1, <1>2, <1>3, SameRecord DEF RecordInv, Told
  <2> QED
    BY <1>1, <1>3, <2>1, SameRecord DEF RecordInv
<1>4. CASE \E how \in Hows : call'[c].end = how /\ Note(c, how)
  <2>1. PICK how \in Hows : call'[c].end = how /\ Note(c, how)
    BY <1>4
  <2>2. hub.pc = "serves"
    BY <1>1, HandledServes DEF Serves
  <2>3. /\ RecordTypes' /\ LinesInOrder' /\ DoingInOrder' /\ QueueInOrder' /\ CountsAhead' /\ Silent'
        /\ PiecesDropped' /\ Sound \subseteq Sound'
        /\ Noted(c, how) => \E draft \in Sound' : draft.call = c /\ draft.how = how
    BY <1>1, <2>1, <2>2, NoteKeeps
  <2>4. ASSUME NEW d \in mix.calls, call'[d].end \in {"ok", "failed", "refused"}, call'[d].boot = hub.boot, Ask[d].key # None
        PROVE  d \in dropped \/ \E draft \in Sound' : draft.call = d /\ draft.how = call'[d].end
    <3>1. CASE d = c
      BY <2>1, <2>3, <2>4, <3>1 DEF Noted
    <3>2. CASE d # c
      BY <1>2, <2>2, <2>3, <2>4, <3>2 DEF RecordInv, Told
    <3> QED
      BY <3>1, <3>2
  <2>5. Told'
    BY <1>1, <2>4 DEF Told
  <2> QED
    BY <2>3, <2>5 DEF RecordInv
<1> QED
  BY <1>1, <1>3, <1>4 DEF Progress

\* The oldest draft is taken: it gets the next number of its session, and is written.
LEMMA TakeKeeps ==
    ASSUME RecordInv, CallsInv, Take, mix' = mix, hub' = hub, call' = call
    PROVE  RecordInv'
<1> USE DEF RecordInv
<1>0. PICK d, l, n : d = writer.queue[1] /\ l = Line(d) /\ n = Len(writer.queue)
  OBVIOUS
<1>1. PICK key : key = Ask[d.call].key
  OBVIOUS
<1>2. /\ writer.queue # <<>> /\ writer.doing = {} /\ file' = file /\ dropped' = dropped
      /\ writer' = [writer EXCEPT !.queue = Tail(writer.queue), !.doing = {l}, !.count[key] = writer.count[key] + 1]
  BY <1>0, <1>1 DEF Take, MayTake
<1>3. /\ DOMAIN writer = {"queue", "doing", "count", "sent"} /\ writer.queue \in Seq(Draft) /\ writer.sent \in Nat
      /\ writer.count \in [Keys -> Nat] /\ hub.boot \in Nat
  BY DEF RecordTypes, CallsInv
<1>4. n \in Nat /\ n >= 1 /\ d \in Draft /\ Faithful(d) /\ d.nth \in Nat /\ d.nth <= writer.sent /\ key \in Keys /\ hub.pc = "serves"
  <2>1. n \in Nat /\ n >= 1
    BY <1>0, <1>2, <1>3
  <2> QED
    BY <1>0, <1>1, <1>2, <2>1, QueueTyped DEF QueueInOrder, Silent
<1>5. /\ DOMAIN writer' = {"queue", "doing", "count", "sent"} /\ writer'.queue = Tail(writer.queue)
      /\ writer'.doing = {l} /\ writer'.sent = writer.sent
      /\ writer'.count = [writer.count EXCEPT ![key] = writer.count[key] + 1]
  BY <1>2, <1>3
<1>6. /\ l.call = d.call /\ l.args = d.args /\ l.how = d.how /\ l.nth = d.nth /\ l.boot = hub.boot
      /\ l.seq = writer.count[key] + 1 /\ l.form = "line" /\ l \in LineOf
  BY <1>0, <1>1, <1>3, <1>4 DEF Line, Draft, LineOf
<1>7. /\ writer'.queue \in Seq(Draft) /\ Len(writer'.queue) = n - 1
      /\ \A i \in 1 .. n - 1 : writer'.queue[i] = writer.queue[i + 1] /\ i + 1 \in 1 .. n
  BY <1>0, <1>2, <1>3, <1>4, <1>5
<1>8. /\ writer'.count \in [Keys -> Nat] /\ writer'.count[key] = writer.count[key] + 1
      /\ \A k \in Keys : writer'.count[k] >= writer.count[k]
  BY <1>3, <1>4, <1>5
<1>9. RecordTypes'
  <2>1. Faithful(l)
    BY <1>4, <1>6 DEF Faithful
  <2>2. \A i \in 1 .. Len(writer'.queue) : Faithful(writer'.queue[i])
    BY <1>0, <1>7, QueueTyped
  <2> QED
    BY <1>2, <1>3, <1>5, <1>6, <1>7, <1>8, <2>1, <2>2 DEF RecordTypes, Faithful
<1>10. LinesInOrder'
  BY <1>2 DEF LinesInOrder
<1>11. DoingInOrder'
  <2>1. l.boot = hub'.boot /\ l.nth <= writer'.sent /\ l.seq <= writer'.count[Ask[l.call].key]
    BY <1>1, <1>3, <1>4, <1>5, <1>6, <1>8
  <2>2. ASSUME NEW k \in Keys, NEW i \in 1 .. Len(file[k]), Ours(file[k][i])
        PROVE file[k][i].nth < l.nth /\ (k = Ask[l.call].key => file[k][i].seq < l.seq)
    <3>1. file[k][i].nth < d.nth
      BY <1>0, <1>4, <2>2 DEF QueueInOrder
    <3>2. file[k][i].seq <= writer.count[k] /\ file[k][i].seq \in Nat /\ writer.count[k] \in Nat
      BY <1>3, <1>4, <2>2, LinesTyped DEF CountsAhead
    <3> QED
      BY <1>1, <1>6, <3>1, <3>2
  <2>3. ASSUME NEW i \in 1 .. n - 1 PROVE l.nth < writer'.queue[i].nth
    <3>1. 1 \in 1 .. Len(writer.queue) /\ i + 1 \in 1 .. Len(writer.queue) /\ 1 < i + 1
      BY <1>0, <1>4, <1>7
    <3>2. writer.queue[1].nth < writer.queue[i + 1].nth
      BY <3>1 DEF QueueInOrder
    <3> QED
      BY <1>0, <1>6, <1>7, <3>2
  <2> QED
    BY <1>2, <1>5, <1>7, <2>1, <2>2, <2>3 DEF DoingInOrder, Ours
<1>12. QueueInOrder'
  <2>1. ASSUME NEW i \in 1 .. n - 1
        PROVE  /\ writer'.queue[i].nth <= writer'.sent
               /\ \A j \in 1 .. n - 1 : i < j => writer'.queue[i].nth < writer'.queue[j].nth
               /\ \A k \in Keys : \A m \in 1 .. Len(file[k]) : Ours(file[k][m]) => file[k][m].nth < writer'.queue[i].nth
    <3>1. i + 1 \in 1 .. Len(writer.queue) /\ writer'.queue[i] = writer.queue[i + 1]
      BY <1>0, <1>7
    <3>2. \A j \in 1 .. n - 1 : i < j => i + 1 < j + 1 /\ j + 1 \in 1 .. Len(writer.queue) /\ writer'.queue[j] = writer.queue[j + 1]
      BY <1>0, <1>4, <1>7
    <3> QED
      BY <1>5, <3>1, <3>2 DEF QueueInOrder
  <2> QED
    BY <1>2, <1>7, <2>1 DEF QueueInOrder, Ours
<1>13. CountsAhead'
  <2>1. ASSUME NEW k \in Keys, NEW i \in 1 .. Len(file[k]), Ours(file[k][i])
        PROVE  file[k][i].seq <= writer'.count[k] /\ file[k][i].nth <= writer'.sent
    <3>1. file[k][i].seq <= writer.count[k] /\ file[k][i].nth <= writer.sent /\ file[k][i].seq \in Nat
      BY <1>4, <2>1, LinesTyped DEF CountsAhead
    <3> QED
      BY <1>3, <1>5, <1>8, <3>1
  <2> QED
    BY <1>2, <2>1 DEF CountsAhead, Ours
<1>14. Silent'
  BY <1>4 DEF Silent
<1>15. Told'
  <2>1. ASSUME NEW draft \in Sound PROVE \E same \in Sound' : same.call = draft.call /\ same.how = draft.how
    <3>1. CASE draft \in ToSet(writer.queue)
      <4>1. PICK i \in 1 .. n : draft = writer.queue[i]
        BY <1>0, <3>1, QueueTyped DEF ToSet
      <4>2. CASE i = 1
        <5>1. l \in Sound'
          BY <1>5 DEF Sound
        <5> QED
          BY <1>0, <1>6, <4>1, <4>2, <5>1
      <4>3. CASE i # 1
        <5>1. i - 1 \in 1 .. n - 1 /\ writer'.queue[i - 1] = draft /\ DOMAIN writer'.queue = 1 .. n - 1
          BY <1>4, <1>7, <4>1, <4>3
        <5>2. draft \in ToSet(writer'.queue)
          BY <5>1 DEF ToSet
        <5> QED
          BY <5>2 DEF Sound
      <4> QED
        BY <4>2, <4>3
    <3>2. CASE draft \notin ToSet(writer.queue)
      BY <1>2, <2>1, <3>2 DEF Sound
    <3> QED
      BY <3>1, <3>2
  <2>2. \A c \in mix.calls : call'[c].end = call[c].end /\ call'[c].boot = call[c].boot
    OBVIOUS
  <2> QED
    BY <1>2, <2>1, <2>2, TellsKept
<1>16. PiecesDropped'
  BY <1>2 DEF PiecesDropped, Ours
<1> QED
  BY <1>9, <1>10, <1>11, <1>12, <1>13, <1>14, <1>15, <1>16

\* A line lands behind those of its session; those stay.
LEMMA LandsIs ==
    ASSUME RecordTypes, NEW line \in LineOf, Faithful(line), NEW key, key = Ask[line.call].key, NEW n, n = Len(file[key]), Lands(line)
    PROVE  /\ key \in Keys /\ n \in Nat /\ file' \in [Keys -> Seq(LineOf)] /\ \A k \in Keys \ {key} : file'[k] = file[k]
           /\ Len(file'[key]) = n + 1 /\ \A i \in 1 .. n : file'[key][i] = file[key][i]
           /\ file'[key][n + 1] = line
<1>1. key \in Keys /\ file \in [Keys -> Seq(LineOf)] /\ file[key] \in Seq(LineOf)
  BY DEF Faithful, RecordTypes
<1>2. file' = [file EXCEPT ![key] = Append(file[key], line)]
  BY DEF Lands
<1>3. /\ Append(file[key], line) \in Seq(LineOf) /\ Len(Append(file[key], line)) = n + 1 /\ n \in Nat
      /\ (\A i \in 1 .. n : Append(file[key], line)[i] = file[key][i]) /\ Append(file[key], line)[n + 1] = line
  BY <1>1
<1>4. file'[key] = Append(file[key], line) /\ \A k \in Keys \ {key} : file'[k] = file[k]
  BY <1>1, <1>2
<1>5. file' \in [Keys -> Seq(LineOf)]
  BY <1>1, <1>2, <1>3
<1> QED
  BY <1>1, <1>3, <1>4, <1>5

\* A line of this life that is behind its file keeps the record in order.
LEMMA LandsKeeps ==
    ASSUME RecordTypes, LinesInOrder, NEW line \in LineOf, Faithful(line), Ours(line), hub.boot \in Nat, Lands(line),
           \A i \in 1 .. Len(file[Ask[line.call].key]) :
              Ours(file[Ask[line.call].key][i]) =>
                 file[Ask[line.call].key][i].seq < line.seq /\ file[Ask[line.call].key][i].nth < line.nth
    PROVE  /\ file' \in [Keys -> Seq(LineOf)] /\ LinesInOrder'
           /\ \A k \in Keys : \A i \in 1 .. Len(file'[k]) :
                 /\ Faithful(file'[k][i]) /\ file'[k][i].boot <= hub.boot
                 /\ \/ i \in 1 .. Len(file[k]) /\ file'[k][i] = file[k][i]
                    \/ k = Ask[line.call].key /\ file'[k][i] = line
           /\ \A k \in Keys : \A i \in 1 .. Len(file[k]) : i \in 1 .. Len(file'[k]) /\ file'[k][i] = file[k][i]
           /\ \E i \in 1 .. Len(file'[Ask[line.call].key]) : file'[Ask[line.call].key][i] = line
<1>0. PICK key, n : key = Ask[line.call].key /\ n = Len(file[key])
  OBVIOUS
<1>1. /\ key \in Keys /\ n \in Nat /\ file' \in [Keys -> Seq(LineOf)] /\ \A k \in Keys \ {key} : file'[k] = file[k]
      /\ Len(file'[key]) = n + 1 /\ \A i \in 1 .. n : file'[key][i] = file[key][i]
      /\ file'[key][n + 1] = line
  <2>1. key = Ask[line.call].key
    BY <1>0
  <2>2. n = Len(file[key])
    BY <1>0
  <2> QED
    BY ONLY RecordTypes, line \in LineOf, Faithful(line), Lands(line), <2>1, <2>2, LandsIs
<1>2. /\ \A k \in Keys : \A i \in 1 .. Len(file[k]) : Faithful(file[k][i]) /\ file[k][i].boot <= hub.boot
      /\ \A i \in 1 .. n : Ours(file[key][i]) => file[key][i].seq < line.seq /\ file[key][i].nth < line.nth
  BY <1>0 DEF RecordTypes
<1>3. ASSUME NEW k \in Keys, NEW i \in 1 .. Len(file'[k])
      PROVE  /\ Faithful(file'[k][i]) /\ file'[k][i].boot <= hub.boot
             /\ \/ i \in 1 .. Len(file[k]) /\ file'[k][i] = file[k][i]
                \/ k = key /\ file'[k][i] = line
  <2>1. CASE k # key
    BY <1>1, <1>2, <2>1
  <2>2. CASE k = key /\ i \in 1 .. n
    BY <1>0, <1>1, <1>2, <2>2
  <2>3. CASE k = key /\ i = n + 1
    BY <1>1, <2>3 DEF Faithful, Ours
  <2> QED
    BY <1>1, <2>1, <2>2, <2>3
<1>4. LinesInOrder'
  <2>1. ASSUME NEW k \in Keys, NEW i \in 1 .. Len(file'[k]), NEW j \in 1 .. Len(file'[k]), i < j, file'[k][i].boot = file'[k][j].boot
        PROVE  file'[k][i].seq < file'[k][j].seq /\ file'[k][i].nth < file'[k][j].nth
    <3>1. CASE k # key
      BY <1>1, <2>1, <3>1 DEF LinesInOrder
    <3>2. CASE k = key /\ j \in 1 .. n
      <4>1. i \in 1 .. n
        BY <1>1, <2>1, <3>2
      <4> QED
        <5>1. /\ i \in 1 .. Len(file[key]) /\ j \in 1 .. Len(file[key])
              /\ file'[k][i] = file[key][i] /\ file'[k][j] = file[key][j]
          BY <1>0, <1>1, <3>2, <4>1
        <5> QED
          BY <1>1, <2>1, <5>1 DEF LinesInOrder
    <3>3. CASE k = key /\ j = n + 1
      <4>1. i \in 1 .. n /\ file'[k][i] = file[key][i]
        BY <1>1, <2>1, <3>3
      <4>2. Ours(file[key][i])
        BY <1>1, <2>1, <3>3, <4>1 DEF Ours
      <4> QED
        BY <1>1, <1>2, <3>3, <4>1, <4>2
    <3> QED
      BY <1>1, <3>1, <3>2, <3>3
  <2> QED
    BY <2>1 DEF LinesInOrder
<1>5. ASSUME NEW k \in Keys, NEW i \in 1 .. Len(file[k]) PROVE i \in 1 .. Len(file'[k]) /\ file'[k][i] = file[k][i]
  <2>1. CASE k = key
    <3>1. i \in 1 .. n
      BY <1>0, <2>1
    <3> QED
      BY <1>1, <2>1, <3>1
  <2>2. CASE k # key
    BY <1>1, <2>2
  <2> QED
    BY <2>1, <2>2
<1>6. n + 1 \in 1 .. Len(file'[key])
  BY <1>1
<1> QED
  BY <1>0, <1>1, <1>3, <1>4, <1>5, <1>6

\* What may be in the files for a line that was being written: all of it, a piece of it, or nothing.
Left(l) ==
    \/ UNCHANGED file
    \/ \E form \in {"line", "half", "bare"} : Lands([l EXCEPT !.form = form])

LEMMA BrokenIs ==
    ASSUME NEW l \in LineOf, l.form = "line", Lands(l) \/ Breaks(l)
    PROVE  Left(l)
<1>1. l = [l EXCEPT !.form = "line"]
  BY DEF LineOf
<1>2. Lands(l) => Lands([l EXCEPT !.form = "line"])
  BY <1>1
<1>3. Breaks(l) => file' = file \/ \E form \in {"half", "bare"} : Lands([l EXCEPT !.form = form])
  BY DEF Breaks
<1> QED
  BY <1>2, <1>3 DEF Left

\* What is left of a line of this life keeps the record in order.
LEMMA LeftKeeps ==
    ASSUME RecordTypes, LinesInOrder, DoingInOrder, hub.boot \in Nat, NEW l \in writer.doing, Left(l)
    PROVE  /\ file' \in [Keys -> Seq(LineOf)] /\ LinesInOrder'
           /\ \A k \in Keys : \A i \in 1 .. Len(file'[k]) :
                 /\ Faithful(file'[k][i]) /\ file'[k][i].boot <= hub.boot
                 /\ \/ i \in 1 .. Len(file[k]) /\ file'[k][i] = file[k][i]
                    \/ /\ k = Ask[l.call].key /\ file'[k][i].boot = l.boot /\ file'[k][i].call = l.call
                       /\ file'[k][i].nth = l.nth /\ file'[k][i].seq = l.seq
                       /\ \E form \in {"line", "half", "bare"} : file'[k][i].form = form /\ Lands([l EXCEPT !.form = form])
           /\ \A k \in Keys : \A i \in 1 .. Len(file[k]) : i \in 1 .. Len(file'[k]) /\ file'[k][i] = file[k][i]
<1>1. CASE file' = file
  BY <1>1 DEF RecordTypes, LinesInOrder
<1>2. ASSUME NEW form \in {"line", "half", "bare"}, Lands([l EXCEPT !.form = form])
      PROVE  /\ file' \in [Keys -> Seq(LineOf)] /\ LinesInOrder'
             /\ \A k \in Keys : \A i \in 1 .. Len(file'[k]) :
                   /\ Faithful(file'[k][i]) /\ file'[k][i].boot <= hub.boot
                   /\ \/ i \in 1 .. Len(file[k]) /\ file'[k][i] = file[k][i]
                      \/ /\ k = Ask[l.call].key /\ file'[k][i].boot = l.boot /\ file'[k][i].call = l.call
                         /\ file'[k][i].nth = l.nth /\ file'[k][i].seq = l.seq /\ file'[k][i].form = form
             /\ \A k \in Keys : \A i \in 1 .. Len(file[k]) : i \in 1 .. Len(file'[k]) /\ file'[k][i] = file[k][i]
  <2>1. PICK line : line = [l EXCEPT !.form = form]
    OBVIOUS
  <2>2. l \in LineOf /\ Faithful(l) /\ Ours(l) /\ Ask[l.call].key \in Keys
    BY DEF RecordTypes, DoingInOrder, Faithful
  <2>3. /\ line \in LineOf /\ line.call = l.call /\ line.args = l.args /\ line.boot = l.boot
        /\ line.seq = l.seq /\ line.nth = l.nth /\ line.form = form
    BY <2>1, <2>2 DEF LineOf
  <2>4. Faithful(line) /\ Ours(line) /\ Lands(line)
    BY <1>2, <2>1, <2>2, <2>3 DEF Faithful, Ours
  <2>5. \A i \in 1 .. Len(file[Ask[line.call].key]) :
           Ours(file[Ask[line.call].key][i]) =>
              file[Ask[line.call].key][i].seq < line.seq /\ file[Ask[line.call].key][i].nth < line.nth
    BY <2>2, <2>3 DEF DoingInOrder
  <2>6. /\ file' \in [Keys -> Seq(LineOf)] /\ LinesInOrder'
        /\ \A k \in Keys : \A i \in 1 .. Len(file'[k]) :
              /\ Faithful(file'[k][i]) /\ file'[k][i].boot <= hub.boot
              /\ \/ i \in 1 .. Len(file[k]) /\ file'[k][i] = file[k][i]
                 \/ k = Ask[line.call].key /\ file'[k][i] = line
        /\ \A k \in Keys : \A i \in 1 .. Len(file[k]) : i \in 1 .. Len(file'[k]) /\ file'[k][i] = file[k][i]
    BY <2>3, <2>4, <2>5, LandsKeeps
  <2> QED
    BY <2>3, <2>6
<1> QED
  BY <1>1, <1>2 DEF Left

\* A line that was being written is in the file, or the disk refused it, and no other is being written.
LEMMA WriteKeeps ==
    ASSUME RecordInv, CallsInv, Write \/ Drops, mix' = mix, hub' = hub, call' = call
    PROVE  RecordInv'
<1> USE DEF RecordInv
<1>1. PICK l \in writer.doing :
         /\ writer' = [writer EXCEPT !.doing = writer.doing \ {l}]
         /\ \/ Lands(l) /\ dropped' = dropped
            \/ Breaks(l) /\ dropped' = dropped \cup {l.call}
  BY DEF Write, Drops
<1>2. /\ DOMAIN writer = {"queue", "doing", "count", "sent"} /\ writer.queue \in Seq(Draft) /\ writer.sent \in Nat
      /\ writer.count \in [Keys -> Nat] /\ hub.boot \in Nat
  BY DEF RecordTypes, CallsInv
<1>3. /\ DOMAIN writer' = {"queue", "doing", "count", "sent"} /\ writer'.queue = writer.queue
      /\ writer'.doing = {} /\ writer'.sent = writer.sent /\ writer'.count = writer.count
  BY <1>1, <1>2 DEF DoingInOrder
<1>4. l \in LineOf /\ Faithful(l) /\ Ours(l) /\ Ask[l.call].key \in Keys
  BY <1>1 DEF RecordTypes, DoingInOrder, Faithful
<1>5. l.form = "line" /\ Left(l)
  BY <1>1, <1>4, BrokenIs DEF RecordTypes
<1>6. /\ file' \in [Keys -> Seq(LineOf)] /\ LinesInOrder'
      /\ \A k \in Keys : \A i \in 1 .. Len(file'[k]) :
            /\ Faithful(file'[k][i]) /\ file'[k][i].boot <= hub.boot
            /\ \/ i \in 1 .. Len(file[k]) /\ file'[k][i] = file[k][i]
               \/ /\ k = Ask[l.call].key /\ file'[k][i].boot = l.boot /\ file'[k][i].call = l.call
                  /\ file'[k][i].nth = l.nth /\ file'[k][i].seq = l.seq
                  /\ \E form \in {"line", "half", "bare"} : file'[k][i].form = form /\ Lands([l EXCEPT !.form = form])
      /\ \A k \in Keys : \A i \in 1 .. Len(file[k]) : i \in 1 .. Len(file'[k]) /\ file'[k][i] = file[k][i]
  BY <1>2, <1>5, LeftKeeps
<1>7. RecordTypes'
  BY <1>2, <1>3, <1>6 DEF RecordTypes, Faithful
<1>8. DoingInOrder'
  BY <1>3 DEF DoingInOrder
<1>9. QueueInOrder'
  <2>1. ASSUME NEW i \in 1 .. Len(writer.queue), NEW k \in Keys, NEW m \in 1 .. Len(file'[k]), file'[k][m].boot = hub.boot
        PROVE  file'[k][m].nth < writer.queue[i].nth
    <3>1. CASE m \in 1 .. Len(file[k]) /\ file'[k][m] = file[k][m]
      BY <2>1, <3>1 DEF QueueInOrder, Ours
    <3>2. CASE file'[k][m].nth = l.nth
      BY <1>1, <3>2 DEF DoingInOrder
    <3> QED
      BY <1>6, <3>1, <3>2
  <2> QED
    BY <1>3, <2>1 DEF QueueInOrder, Ours
<1>10. CountsAhead'
  <2>1. ASSUME hub.pc # "down", NEW k \in Keys, NEW m \in 1 .. Len(file'[k]), file'[k][m].boot = hub.boot
        PROVE  file'[k][m].seq <= writer.count[k] /\ file'[k][m].nth <= writer.sent
    <3>1. CASE m \in 1 .. Len(file[k]) /\ file'[k][m] = file[k][m]
      BY <2>1, <3>1 DEF CountsAhead, Ours
    <3>2. CASE k = Ask[l.call].key /\ file'[k][m].nth = l.nth /\ file'[k][m].seq = l.seq
      BY <1>1, <3>2 DEF DoingInOrder
    <3> QED
      BY <1>6, <3>1, <3>2
  <2> QED
    BY <1>3, <2>1 DEF CountsAhead, Ours
<1>11. Silent'
  BY <1>3 DEF Silent
<1>12. l.call \in dropped' \/ (Lands(l) /\ dropped' = dropped)
  BY <1>1
<1>13. Lands(l) => \E i \in 1 .. Len(file'[Ask[l.call].key]) : file'[Ask[l.call].key][i] = l
  <2> SUFFICES ASSUME Lands(l) PROVE \E i \in 1 .. Len(file'[Ask[l.call].key]) : file'[Ask[l.call].key][i] = l
    OBVIOUS
  <2>1. PICK key, n : key = Ask[l.call].key /\ n = Len(file[key])
    OBVIOUS
  <2>2. n \in Nat /\ Len(file'[key]) = n + 1 /\ file'[key][n + 1] = l
    BY <1>4, <2>1, LandsIs
  <2>3. n + 1 \in 1 .. Len(file'[key])
    BY <2>2
  <2> QED
    BY <2>1, <2>2, <2>3
<1>14. Told'
  <2>1. ASSUME NEW k \in Keys PROVE DOMAIN file[k] = 1 .. Len(file[k]) /\ DOMAIN file'[k] = 1 .. Len(file'[k])
    BY <1>6 DEF RecordTypes
  <2>2. ASSUME NEW draft \in Sound
        PROVE draft.call \in dropped' \/ \E same \in Sound' : same.call = draft.call /\ same.how = draft.how
    <3>1. CASE draft \in writer.doing
      <4>1. draft = l
        BY <1>1, <3>1 DEF DoingInOrder
      <4>2. CASE Lands(l)
        <5>1. PICK i \in 1 .. Len(file'[Ask[l.call].key]) : file'[Ask[l.call].key][i] = l
          BY <1>13, <4>2
        <5>2. l \in ToSet(file'[Ask[l.call].key])
          BY <1>4, <2>1, <5>1 DEF ToSet
        <5>3. l \in Sound'
          BY <1>4, <1>5, <5>2 DEF Sound
        <5> QED
          BY <4>1, <5>3
      <4> QED
        BY <1>12, <4>1, <4>2
    <3>2. CASE draft \in ToSet(writer.queue)
      BY <1>3, <3>2 DEF Sound
    <3>3. CASE \E k \in Keys : draft \in ToSet(file[k]) /\ draft.form = "line"
      <4>1. PICK k \in Keys : draft \in ToSet(file[k]) /\ draft.form = "line"
        BY <3>3
      <4>2. PICK i \in 1 .. Len(file[k]) : draft = file[k][i]
        BY <2>1, <4>1 DEF ToSet
      <4>3. draft = file'[k][i] /\ i \in DOMAIN file'[k]
        BY <1>6, <2>1, <4>2
      <4>4. draft \in Sound'
        BY <4>1, <4>3 DEF Sound, ToSet
      <4> QED
        BY <4>4
    <3> QED
      BY <3>1, <3>2, <3>3 DEF Sound
  <2>3. \A c \in mix.calls : call'[c].end = call[c].end /\ call'[c].boot = call[c].boot
    OBVIOUS
  <2>4. dropped \subseteq dropped'
    BY <1>1
  <2> QED
    BY <2>2, <2>3, <2>4, TellsKept
<1>15. PiecesDropped'
  <2>1. ASSUME hub.pc # "down", NEW k \in Keys, NEW m \in 1 .. Len(file'[k]), file'[k][m].boot = hub.boot, file'[k][m].form # "line"
        PROVE  file'[k][m].call \in dropped'
    <3>1. dropped \subseteq dropped'
      BY <1>1
    <3>2. CASE m \in 1 .. Len(file[k]) /\ file'[k][m] = file[k][m]
      BY <2>1, <3>1, <3>2 DEF PiecesDropped, Ours
    <3>3. CASE /\ file'[k][m].call = l.call
               /\ \E form \in {"line", "half", "bare"} : file'[k][m].form = form /\ Lands([l EXCEPT !.form = form])
      <4>1. PICK form \in {"half", "bare"} : file'[k][m].form = form /\ Lands([l EXCEPT !.form = form])
        BY <2>1, <3>3
      <4>2. ~Lands(l)
        <5>1. SUFFICES ASSUME Lands(l) PROVE FALSE
          OBVIOUS
        <5>2. PICK line, key, n : line = [l EXCEPT !.form = form] /\ key = Ask[l.call].key /\ n = Len(file[key])
          OBVIOUS
        <5>3. line \in LineOf /\ line.call = l.call /\ line.args = l.args /\ line.form = form
          BY <1>4, <5>2 DEF LineOf
        <5>4. Faithful(line) /\ Lands(line)
          BY <1>4, <4>1, <5>2, <5>3 DEF Faithful
        <5>5. file'[key][n + 1] = l
          BY <1>4, <5>1, <5>2, LandsIs
        <5>6. file'[key][n + 1] = line
          <6>1. key = Ask[line.call].key
            BY <5>2, <5>3
          <6>2. n = Len(file[key])
            BY <5>2
          <6> QED
            BY <5>3, <5>4, <6>1, <6>2, LandsIs
        <5> QED
          BY <1>5, <5>3, <5>5, <5>6
      <4> QED
        BY <1>12, <3>3, <4>2
    <3> QED
      BY <1>6, <3>2, <3>3
  <2> QED
    BY <2>1 DEF PiecesDropped, Ours
<1> QED
  BY <1>6, <1>7, <1>8, <1>9, <1>10, <1>11, <1>14, <1>15

\* A life begins with nothing noted, and with no line of its own.
LEMMA BootsRecords ==
    ASSUME RecordInv, CallsInv, Load \/ Probe \/ Opens, mix' = mix, call' = call, UNCHANGED recordVars
    PROVE  RecordInv'
<1> USE DEF RecordInv
<1>1. /\ hub'.pc # "down" /\ hub.boot \in Nat /\ hub'.boot \in Nat /\ hub.boot <= hub'.boot
      /\ hub.pc # "serves" /\ (hub'.boot = hub.boot => hub.pc # "down")
      /\ \A c \in mix.calls : call[c].boot < hub'.boot
  BY BootsKeeps
<1>2. writer' = writer /\ file' = file /\ dropped' = dropped
  BY DEF recordVars
<1>3. writer.queue = <<>> /\ writer.doing = {} /\ writer.sent = 0 /\ \A k \in Keys : writer.count[k] = 0
  BY <1>1 DEF Silent
<1>4. \A k \in Keys : \A i \in 1 .. Len(file[k]) : file[k][i].boot <= hub.boot /\ file[k][i].boot \in Nat
  BY LinesTyped DEF RecordTypes
<1>5. RecordTypes'
  <2>1. \A k \in Keys : \A i \in 1 .. Len(file[k]) : file[k][i].boot <= hub'.boot
    BY <1>1, <1>4
  <2> QED
    BY <1>2, <2>1 DEF RecordTypes, Faithful
<1>6. LinesInOrder'
  BY <1>2 DEF LinesInOrder
<1>7. DoingInOrder'
  BY <1>2, <1>3 DEF DoingInOrder
<1>8. QueueInOrder'
  BY <1>2, <1>3 DEF QueueInOrder
<1>9. CountsAhead'
  <2>1. ASSUME NEW k \in Keys, NEW i \in 1 .. Len(file[k]), file[k][i].boot = hub'.boot
        PROVE  file[k][i].seq <= writer.count[k] /\ file[k][i].nth <= writer.sent
    <3>1. hub'.boot = hub.boot /\ hub.pc # "down"
      BY <1>1, <1>4, <2>1
    <3> QED
      BY <2>1, <3>1 DEF CountsAhead, Ours
  <2> QED
    BY <1>2, <2>1 DEF CountsAhead, Ours
<1>10. Silent'
  BY <1>2, <1>3 DEF Silent
<1>11. Told'
  <2>1. \A c \in mix.calls : call'[c].boot # hub'.boot
    <3>1. \A c \in mix.calls : call[c].boot \in Nat
      BY DEF CallsInv, Lives
    <3> QED
      BY <1>1, <3>1
  <2> QED
    BY <2>1 DEF Told
<1>12. PiecesDropped'
  <2>1. ASSUME NEW k \in Keys, NEW i \in 1 .. Len(file[k]), file[k][i].boot = hub'.boot, file[k][i].form # "line"
        PROVE  file[k][i].call \in dropped
    <3>1. hub'.boot = hub.boot /\ hub.pc # "down"
      BY <1>1, <1>4, <2>1
    <3> QED
      BY <2>1, <3>1 DEF PiecesDropped, Ours
  <2> QED
    BY <1>2, <2>1 DEF PiecesDropped, Ours
<1> QED
  BY <1>5, <1>6, <1>7, <1>8, <1>9, <1>10, <1>11, <1>12

\* A life ends with what is in the files, and at most a piece of the line that was being written.
LEMMA CrashRecords ==
    ASSUME RecordInv, CallsInv, Crash
    PROVE  RecordInv'
<1> USE DEF RecordInv
<1>1. /\ hub' = [hub EXCEPT !.pc = "down", !.waits = {}]
      /\ writer' = [queue |-> <<>>, doing |-> {}, count |-> [k \in Keys |-> 0], sent |-> 0]
      /\ file' = file \/ \E line \in writer.doing : Breaks(line) \/ Lands(line)
  BY DEF Crash
<1>2. hub'.pc = "down" /\ hub'.boot = hub.boot /\ hub.boot \in Nat
  BY <1>1 DEF CallsInv
<1>3. /\ file' \in [Keys -> Seq(LineOf)] /\ LinesInOrder'
      /\ \A k \in Keys : \A i \in 1 .. Len(file'[k]) : Faithful(file'[k][i]) /\ file'[k][i].boot <= hub.boot
  <2>1. CASE file' = file
    BY <2>1 DEF RecordTypes, LinesInOrder
  <2>2. ASSUME NEW line \in writer.doing, Breaks(line) \/ Lands(line)
        PROVE  /\ file' \in [Keys -> Seq(LineOf)] /\ LinesInOrder'
               /\ \A k \in Keys : \A i \in 1 .. Len(file'[k]) : Faithful(file'[k][i]) /\ file'[k][i].boot <= hub.boot
    <3>1. line \in LineOf /\ line.form = "line"
      BY DEF RecordTypes
    <3>2. Left(line)
      BY <2>2, <3>1, BrokenIs
    <3> QED
      BY <1>2, <3>2, LeftKeeps
  <2> QED
    BY <1>1, <2>1, <2>2
<1>4. RecordTypes'
  BY <1>1, <1>2, <1>3 DEF RecordTypes, Faithful
<1>5. DoingInOrder' /\ QueueInOrder'
  BY <1>1 DEF DoingInOrder, QueueInOrder
<1>6. CountsAhead' /\ Told' /\ PiecesDropped'
  BY <1>2 DEF CountsAhead, Told, PiecesDropped
<1>7. Silent'
  BY <1>1 DEF Silent
<1> QED
  BY <1>3, <1>4, <1>5, <1>6, <1>7

LEMMA RecordStep ==
    ASSUME RecordInv, CallsInv, [Next]_vars
    PROVE  RecordInv'
<1>1. CASE UNCHANGED vars
  BY <1>1, RecordKept DEF vars
<1>2. ASSUME NEW c \in Calls, Serves(c) PROVE RecordInv'
  BY <1>2, ServesRecords
<1>3. CASE \/ \E e \in Edits : EditStep(e) \/ Dies(e)
           \/ \E v \in DOMAIN Wants, state \in {"up", "down", "slow"} : RemoteChanges(v, state)
  BY <1>3, OthersKeep, RecordKept
<1>4. CASE Boots
  BY <1>4, BootsRecords DEF Boots
<1>5. CASE Records \/ Drops
  BY <1>5, TakeKeeps, WriteKeeps DEF Records, Drops
<1>6. CASE Crash
  BY <1>6, CrashRecords
<1> QED
  BY <1>1, <1>2, <1>3, <1>4, <1>5, <1>6 DEF Next

LEMMA RecordHolds == Spec => []RecordInv
<1>1. RecordInv /\ CallsInv /\ [Next]_vars => RecordInv'
  BY RecordStep
<1> QED
  BY <1>1, RecordInit, CallsHold, PTL DEF Spec

\* The fixed order of a set has the members of the set and no others.
LEMMA FixedOrder ==
    ASSUME NEW S, IsFiniteSet(S)
    PROVE  SetToSeq(S) \in [1 .. Cardinality(S) -> S] /\ {SetToSeq(S)[i] : i \in 1 .. Cardinality(S)} = S
<1> DEFINE n == Cardinality(S)
<1>1. n \in Nat /\ ExistsBijection(1 .. n, S)
  BY FS_CardinalityType
<1>2. \E f \in [1 .. n -> S] : IsInjective(f)
  BY <1>1 DEF ExistsBijection, Bijection, Injection
<1>3. PICK f \in [1 .. n -> S] : IsInjective(f) /\ f = SetToSeq(S)
  BY <1>2 DEF SetToSeq
<1>4. f \in Injection(1 .. n, S) /\ IsFiniteSet(1 .. n) /\ Cardinality(1 .. n) = n
  BY <1>1, <1>3, FS_Interval DEF Injection
<1>5. f \in Surjection(1 .. n, S)
  BY <1>4, FS_Injection
<1> QED
  BY <1>3, <1>5 DEF Surjection

\* A capture says whose arguments it is of, whatever their order and however long they are.
LEMMA CapturesAre ==
    ASSUME NEW one, NEW two, IsFiniteSet(ToSet(one)), IsFiniteSet(ToSet(two))
    PROVE  Capture(one) = Capture(two) <=> ToSet(one) = ToSet(two)
<1>1. Capture(one) = Capture(two) <=> Canonical(one) = Canonical(two)
  BY DEF Capture, Captured
<1>2. ASSUME Canonical(one) = Canonical(two) PROVE ToSet(one) = ToSet(two)
  <2> DEFINE S == ToSet(one)
             T == ToSet(two)
  <2>1. /\ SetToSeq(S) \in [1 .. Cardinality(S) -> S] /\ {SetToSeq(S)[i] : i \in 1 .. Cardinality(S)} = S
        /\ SetToSeq(T) \in [1 .. Cardinality(T) -> T] /\ {SetToSeq(T)[i] : i \in 1 .. Cardinality(T)} = T
    BY FixedOrder
  <2>2. SetToSeq(S) = SetToSeq(T)
    BY <1>2 DEF Canonical
  <2>3. 1 .. Cardinality(S) = 1 .. Cardinality(T)
    BY <2>1, <2>2
  <2> QED
    BY <2>1, <2>2, <2>3
<1> QED
  BY <1>1, <1>2 DEF Canonical

\* A sound draft of a call is what the property asks for: it is on its way, or has a line that can be
\* read back unless it stands behind a piece of another.
LEMMA SoundIsTold ==
    ASSUME RecordTypes, NEW draft \in Sound, NEW how, draft.how = how
    PROVE  \/ \E d \in ToSet(writer.queue) \cup writer.doing : d.call = draft.call /\ d.how = how
           \/ \E k \in Keys : \E i \in DOMAIN file[k] :
                /\ file[k][i].call = draft.call /\ file[k][i].how = how
                /\ Readable(file[k], i) \/ Spoilt(file[k], i)
<1>1. CASE draft \in ToSet(writer.queue) \cup writer.doing
  BY <1>1
<1>2. CASE \E k \in Keys : draft \in ToSet(file[k]) /\ draft.form = "line"
  <2>1. PICK k \in Keys : draft \in ToSet(file[k]) /\ draft.form = "line"
    BY <1>2
  <2>2. PICK i \in DOMAIN file[k] : draft = file[k][i]
    BY <2>1 DEF ToSet
  <2>3. ~Cut(file[k][i]) /\ file[k][i].form # "half"
    BY <2>1, <2>2 DEF Cut
  <2>4. Readable(file[k], i) \/ Spoilt(file[k], i)
    BY <2>3 DEF Readable
  <2> QED
    BY <2>2, <2>4
<1> QED
  BY <1>1, <1>2 DEF Sound

\* The files tell what happened, with any number of editors, calls, lives, sessions and refusals of the
\* disk: unless two editors of a file were in it at once, the file holds what every edit that came through
\* left, whoever is killed (SecretStore::write, Connectors::save); sequence numbers, lines and ends of calls
\* agree in their order within a life (ToBotStore::spawn); every call of this life whose ending is noted
\* has its line on its way or in the file, and the line says how it ended and can be read back, unless the
\* disk refused it or it stands directly behind a piece of another, and this life leaves such pieces only of
\* lines the disk refused (Hub::note, append_lines, steps); and two captures are the same exactly when the
\* arguments were (Captured::of).
THEOREM FilesTellTheTruth == Spec => []FilesTellWhatHappened
<1>1. FilesInv => EditsStick
  BY DEF FilesInv, Undisturbed, EditsStick
<1>2. ASSUME RecordInv PROVE RecordIsInOrder
  <2>1. RecordTypes /\ LinesInOrder
    BY <1>2 DEF RecordInv
  <2>2. \A k \in Keys : DOMAIN file[k] = 1 .. Len(file[k])
    BY <2>1, LinesTyped
  <2> QED
    BY <2>1, <2>2 DEF RecordIsInOrder, LinesInOrder, Lines
<1>3. ASSUME RecordInv PROVE SameCallSameCapture
  <2>1. RecordTypes
    BY <1>3 DEF RecordInv
  <2>2. ASSUME NEW draft \in Drafts PROVE draft.call \in Calls /\ Faithful(draft)
    <3>1. CASE draft \in ToSet(writer.queue)
      BY <2>1, <3>1, QueueTyped DEF ToSet, Draft
    <3>2. CASE draft \in writer.doing
      BY <2>1, <3>2, LinesTyped DEF RecordTypes
    <3>3. CASE \E k \in Keys : draft \in ToSet(file[k])
      <4>1. PICK k \in Keys : draft \in ToSet(file[k])
        BY <3>3
      <4>2. PICK i \in DOMAIN file[k] : draft = file[k][i]
        BY <4>1 DEF ToSet
      <4>3. i \in 1 .. Len(file[k]) /\ Faithful(file[k][i])
        BY <2>1, <4>2, LinesTyped DEF RecordTypes
      <4>4. file[k][i] \in LineOf
        BY <2>1, <4>3, LinesTyped
      <4> QED
        BY <4>2, <4>3, <4>4 DEF LineOf
    <3> QED
      BY <3>1, <3>2, <3>3 DEF Drafts
  <2>3. ASSUME NEW one \in Drafts, NEW two \in Drafts
        PROVE  (one.args = two.args) = (ToSet(Ask[one.call].args) = ToSet(Ask[two.call].args))
    <3>1. one.args = Capture(Ask[one.call].args) /\ two.args = Capture(Ask[two.call].args)
      BY <2>2 DEF Faithful
    <3>2. IsFiniteSet(ToSet(Ask[one.call].args)) /\ IsFiniteSet(ToSet(Ask[two.call].args))
      BY <2>2, DaemonAssumption
    <3>3. Capture(Ask[one.call].args) = Capture(Ask[two.call].args) <=> ToSet(Ask[one.call].args) = ToSet(Ask[two.call].args)
      BY <3>2, CapturesAre
    <3> QED
      BY <3>1, <3>3
  <2> QED
    BY <2>3 DEF SameCallSameCapture
<1>5. ASSUME RecordInv PROVE RecordTellsWhatHappened
  <2>1. RecordTypes /\ Told /\ PiecesDropped
    BY <1>5 DEF RecordInv
  <2>2. ASSUME hub.pc = "serves", NEW c \in mix.calls,
               call[c].end \in {"ok", "failed", "refused"}, call[c].boot = hub.boot, Ask[c].key # None
        PROVE  \/ c \in dropped
               \/ \E draft \in ToSet(writer.queue) \cup writer.doing : draft.call = c /\ draft.how = call[c].end
               \/ \E k \in Keys : \E i \in DOMAIN file[k] :
                    /\ file[k][i].call = c /\ file[k][i].how = call[c].end
                    /\ Readable(file[k], i) \/ Spoilt(file[k], i)
    <3>1. c \in dropped \/ \E draft \in Sound : draft.call = c /\ draft.how = call[c].end
      BY <2>1, <2>2 DEF Told
    <3> QED
      BY <2>1, <3>1, SoundIsTold
  <2>3. ASSUME hub.pc = "serves", NEW k \in Keys, NEW i \in DOMAIN file[k], Cut(file[k][i]), file[k][i].boot = hub.boot
        PROVE  file[k][i].call \in dropped
    <3>1. i \in 1 .. Len(file[k])
      BY <2>1, <2>3, LinesTyped
    <3> QED
      BY <2>1, <2>3, <3>1 DEF PiecesDropped, Ours, Cut
  <2> QED
    BY <2>2, <2>3 DEF RecordTellsWhatHappened, Lines
<1>4. FilesInv /\ RecordInv => FilesTellWhatHappened
  BY <1>1, <1>2, <1>3, <1>5 DEF FilesTellWhatHappened, RecordInv
<1> QED
  BY <1>4, FilesHold, RecordHolds, PTL

-----------------------------------------------------------------------------
(***************************************************************************)
(* Names: what a name escapes to, and where it is split.                     *)
(***************************************************************************)

\* A set of numbers that is not empty has a least one.
LEMMA Least ==
    ASSUME NEW S \in SUBSET Nat, S # {}
    PROVE  \E n \in S : \A m \in S : n <= m
<1> DEFINE R == {ss \in Nat \X Nat : ss[1] < ss[2]}
<1>1. IsWellFoundedOn(R, Nat)
  BY NatLessThanWellFounded DEF OpToRel
<1>2. PICK n \in S : \A m \in S : <<m, n>> \notin R
  BY <1>1, WFMin
<1>3. \A m \in S : ~(m < n)
  BY <1>2
<1> QED
  BY <1>3

\* The library's induction takes an operator; a set of numbers says the same.
LEMMA Steps ==
    ASSUME NEW S, 0 \in S, \A n \in Nat : n \in S => n + 1 \in S
    PROVE  Nat \subseteq S
<1> SUFFICES ASSUME Nat \ S # {} PROVE FALSE
  OBVIOUS
<1>1. PICK n \in Nat \ S : \A m \in Nat \ S : n <= m
  BY Least
<1>2. n # 0 /\ n - 1 \in Nat /\ n - 1 \in S
  BY <1>1
<1> QED
  BY <1>1, <1>2

Joins(a, b) == a \o b

\* The equation of the library's FlattenSeq has a solution.
LEMMA FlattenSolves ==
    ASSUME NEW seqs, Len(seqs) \in Nat, Len(seqs) # 0
    PROVE  \E f : /\ f = [i \in 1 .. Len(seqs) |-> IF i = 1 THEN seqs[i] ELSE Joins(f[i - 1], seqs[i])]
                  /\ FlattenSeq(seqs) = f[Len(seqs)]
<1> DEFINE G(f, m) == f = [i \in 1 .. m |-> IF i = 1 THEN seqs[i] ELSE Joins(f[i - 1], seqs[i])]
<1> DEFINE S == {m \in Nat : \E f : G(f, m)}
<1>1. 0 \in S
  <2>1. G([i \in 1 .. 0 |-> <<>>], 0)
    OBVIOUS
  <2> QED
    BY <2>1
<1>2. ASSUME NEW m \in Nat, m \in S
      PROVE  m + 1 \in S
  <2>1. PICK f : G(f, m)
    BY <1>2
  <2> DEFINE g == [i \in 1 .. (m + 1) |-> IF i <= m THEN f[i] ELSE IF m = 0 THEN seqs[1] ELSE Joins(f[m], seqs[m + 1])]
  <2>1a. \A i \in 1 .. m : f[i] = IF i = 1 THEN seqs[i] ELSE Joins(f[i - 1], seqs[i])
    BY <2>1
  <2>2. g = [i \in 1 .. (m + 1) |-> g[i]]
    OBVIOUS
  <2>3. \A i \in 1 .. m : g[i] = f[i]
    OBVIOUS
  <2>4. m + 1 \in 1 .. (m + 1) /\ ~(m + 1 <= m)
    OBVIOUS
  <2>5. g[m + 1] = IF m = 0 THEN seqs[1] ELSE Joins(f[m], seqs[m + 1])
    BY <2>4
  <2> HIDE DEF g
  <2>6. \A i \in 1 .. m : g[i] = IF i = 1 THEN seqs[i] ELSE Joins(g[i - 1], seqs[i])
    <3> SUFFICES ASSUME NEW i \in 1 .. m, i # 1
                 PROVE  g[i] = Joins(g[i - 1], seqs[i])
      BY <2>1a, <2>3
    <3>1. i - 1 \in 1 .. m
      OBVIOUS
    <3> QED
      BY <2>1a, <2>3, <3>1
  <2>7. g[m + 1] = IF m + 1 = 1 THEN seqs[m + 1] ELSE Joins(g[(m + 1) - 1], seqs[m + 1])
    <3>1. CASE m = 0
      BY <2>5, <3>1
    <3>2. CASE m # 0
      <4>1. m \in 1 .. m /\ (m + 1) - 1 = m /\ m + 1 # 1
        BY <3>2
      <4> QED
        BY <2>3, <2>5, <3>2, <4>1
    <3> QED
      BY <3>1, <3>2
  <2>8. \A i \in 1 .. (m + 1) : i \in 1 .. m \/ i = m + 1
    OBVIOUS
  <2>9. \A i \in 1 .. (m + 1) : g[i] = IF i = 1 THEN seqs[i] ELSE Joins(g[i - 1], seqs[i])
    BY <2>6, <2>7, <2>8
  <2>10. G(g, m + 1)
    BY <2>2, <2>9
  <2> HIDE DEF G
  <2> QED
    BY <2>10
<1>3. Len(seqs) \in S
  BY <1>1, <1>2, Steps
<1> DEFINE P(f) == f = [i \in 1 .. Len(seqs) |-> IF i = 1 THEN seqs[i] ELSE Joins(f[i - 1], seqs[i])]
<1> DEFINE F == CHOOSE f : P(f)
<1>4. P(F)
  <2>1. \E f : P(f)
    BY <1>3
  <2> HIDE DEF P
  <2> QED
    BY <2>1
<1>5. FlattenSeq(seqs) = F[Len(seqs)]
  BY DEF FlattenSeq, Joins
<1> HIDE DEF F
<1> QED
  BY <1>4, <1>5

\* The provers know a symbol by a name of its own.
Under == "_"
Dot   == "."

\* A name is of these; no prover knows "_" for a string.
Symbols == STRING \cup {Under}

LEMMA InSymbols ==
    ASSUME NEW name \in Seq(STRING)
    PROVE  name \in Seq(Symbols)
<1>1. Len(name) \in Nat /\ name \in [1 .. Len(name) -> STRING]
  BY LenProperties
<1>2. name \in [1 .. Len(name) -> Symbols]
  BY <1>1 DEF Symbols
<1> QED
  BY <1>1, <1>2, SeqDef

\* One symbol, escaped.
Esc(x) == IF x = Dot THEN <<Under, Under>> ELSE <<x>>

LEMMA OneTwo ==
    ASSUME NEW S, NEW x \in S, NEW y \in S
    PROVE  /\ <<x>> \in Seq(S) /\ Len(<<x>>) = 1 /\ <<x>>[1] = x
           /\ <<x, y>> \in Seq(S) /\ Len(<<x, y>>) = 2 /\ <<x, y>>[1] = x /\ <<x, y>>[2] = y
OBVIOUS

LEMMA EscIs ==
    ASSUME NEW x \in Symbols
    PROVE  /\ Esc(x) \in Seq(Symbols) /\ Len(Esc(x)) \in {1, 2}
           /\ x # Dot => Len(Esc(x)) = 1 /\ Esc(x)[1] = x
           /\ x = Dot => Len(Esc(x)) = 2 /\ Esc(x)[1] = Under /\ Esc(x)[2] = Under
<1>1. /\ <<x>> \in Seq(Symbols) /\ Len(<<x>>) = 1 /\ <<x>>[1] = x
  BY OneTwo
<1>2. /\ <<Under, Under>> \in Seq(Symbols) /\ Len(<<Under, Under>>) = 2 /\ <<Under, Under>>[1] = Under /\ <<Under, Under>>[2] = Under
  <2>1. Under \in Symbols
    BY DEF Symbols
  <2> QED
    BY <2>1, OneTwo
<1>3. CASE x = Dot
  <2>1. Esc(x) = <<Under, Under>>
    BY <1>3 DEF Esc
  <2> QED
    BY <1>2, <1>3, <2>1
<1>4. CASE x # Dot
  <2>1. Esc(x) = <<x>>
    BY <1>4 DEF Esc
  <2> QED
    BY <1>1, <1>4, <2>1
<1> QED
  BY <1>3, <1>4

LEMMA ConcatIs ==
    ASSUME NEW a \in Seq(Symbols), NEW b \in Seq(Symbols)
    PROVE  /\ a \o b \in Seq(Symbols) /\ Len(a \o b) = Len(a) + Len(b) /\ Len(a) \in Nat /\ Len(b) \in Nat
           /\ \A i \in 1 .. Len(a) : (a \o b)[i] = a[i]
           /\ \A i \in 1 .. Len(b) : (a \o b)[Len(a) + i] = b[i]
<1>1. /\ a \o b \in Seq(Symbols) /\ Len(a) \in Nat /\ Len(b) \in Nat /\ Len(a \o b) = Len(a) + Len(b)
      /\ \A i \in 1 .. Len(a) + Len(b) : (a \o b)[i] = IF i <= Len(a) THEN a[i] ELSE b[i - Len(a)]
  BY ConcatProperties
<1>2. \A i \in 1 .. Len(a) : (a \o b)[i] = a[i]
  BY <1>1
<1>3. ASSUME NEW i \in 1 .. Len(b)
      PROVE  (a \o b)[Len(a) + i] = b[i]
  <2>1. Len(a) + i \in 1 .. Len(a) + Len(b) /\ ~(Len(a) + i <= Len(a)) /\ (Len(a) + i) - Len(a) = i
    BY <1>1
  <2> QED
    BY <1>1, <2>1
<1> QED
  BY <1>1, <1>2, <1>3

\* What the first symbols of a name escape to, longer and longer.
Longer(f, name) ==
    /\ Sanitize(name) = f[Len(name)] /\ f[1] = Esc(name[1])
    /\ \A i \in 2 .. Len(name) : f[i] = Joins(f[i - 1], Esc(name[i]))
    /\ \A i \in 1 .. Len(name) : f[i] \in Seq(Symbols)

LEMMA Escaped ==
    ASSUME NEW name \in Seq(Symbols), name # <<>>
    PROVE  \E f : Longer(f, name)
<1> DEFINE seqs == [i \in DOMAIN name |-> Esc(name[i])]
<1>1. /\ Len(name) \in Nat /\ Len(name) # 0 /\ DOMAIN name = 1 .. Len(name)
      /\ \A i \in 1 .. Len(name) : name[i] \in Symbols
  BY EmptySeq
<1>2. seqs \in Seq(Seq(Symbols)) /\ Len(seqs) = Len(name)
  <2>1. seqs \in [1 .. Len(name) -> Seq(Symbols)]
    BY <1>1, EscIs
  <2> QED
    BY <1>1, <2>1, SeqDef
<1>3. Sanitize(name) = FlattenSeq(seqs)
  BY DEF Sanitize, Esc, Under, Dot, NameSpace
<1>4. \A i \in 1 .. Len(name) : seqs[i] = Esc(name[i]) /\ seqs[i] \in Seq(Symbols)
  BY <1>1, EscIs
<1> HIDE DEF seqs
<1>5. PICK f : /\ f = [i \in 1 .. Len(seqs) |-> IF i = 1 THEN seqs[i] ELSE Joins(f[i - 1], seqs[i])]
               /\ FlattenSeq(seqs) = f[Len(seqs)]
  BY <1>1, <1>2, FlattenSolves
<1>6. f[1] = Esc(name[1]) /\ \A i \in 2 .. Len(name) : f[i] = Joins(f[i - 1], Esc(name[i]))
  <2>1. \A i \in 1 .. Len(name) : f[i] = IF i = 1 THEN seqs[i] ELSE Joins(f[i - 1], seqs[i])
    BY <1>2, <1>5
  <2>2. 1 \in 1 .. Len(name) /\ \A i \in 2 .. Len(name) : i \in 1 .. Len(name) /\ i # 1
    BY <1>1
  <2> QED
    BY <1>4, <2>1, <2>2
<1> DEFINE S == {n \in Nat : \A i \in 1 .. n : i <= Len(name) => f[i] \in Seq(Symbols)}
<1>7. 0 \in S
  OBVIOUS
<1>8. ASSUME NEW n \in Nat, n \in S
      PROVE  n + 1 \in S
  <2>1. ASSUME n + 1 <= Len(name)
        PROVE  f[n + 1] \in Seq(Symbols)
    <3>1. CASE n = 0
      BY <1>1, <1>4, <1>6, <3>1
    <3>2. CASE n # 0
      <4>1. f[n] \in Seq(Symbols) /\ f[n + 1] = Joins(f[n], Esc(name[n + 1])) /\ Esc(name[n + 1]) \in Seq(Symbols)
        <5>1. n \in 1 .. n /\ n <= Len(name) /\ n + 1 \in 2 .. Len(name) /\ n + 1 \in 1 .. Len(name) /\ (n + 1) - 1 = n
          BY <1>1, <2>1, <3>2
        <5>2. f[n] \in Seq(Symbols)
          BY <1>8, <5>1
        <5>3. f[n + 1] = Joins(f[(n + 1) - 1], Esc(name[n + 1]))
          BY <1>6, <5>1
        <5> QED
          BY <1>4, <5>1, <5>2, <5>3
      <4> QED
        BY <4>1, ConcatIs DEF Joins
    <3> QED
      BY <3>1, <3>2
  <2>2. \A i \in 1 .. n + 1 : i \in 1 .. n \/ i = n + 1
    OBVIOUS
  <2> QED
    BY <1>8, <2>1, <2>2
<1>9. Len(name) \in S
  BY <1>1, <1>7, <1>8, Steps
<1>10. \A i \in 1 .. Len(name) : f[i] \in Seq(Symbols)
  BY <1>1, <1>9
<1>11. Sanitize(name) = f[Len(name)]
  BY <1>2, <1>3, <1>5
<1> HIDE DEF S
<1>12. Longer(f, name)
  BY <1>6, <1>10, <1>11 DEF Longer
<1> QED
  BY <1>12

\* What was made of the first symbols stays in front.
LEMMA Stays ==
    ASSUME NEW name \in Seq(Symbols), NEW f, Longer(f, name), NEW m \in 1 .. Len(name)
    PROVE  \A k \in m .. Len(name) : Len(f[k]) >= Len(f[m]) /\ \A i \in 1 .. Len(f[m]) : f[k][i] = f[m][i]
<1> DEFINE Fine(k) == Len(f[k]) >= Len(f[m]) /\ \A i \in 1 .. Len(f[m]) : f[k][i] = f[m][i]
<1> DEFINE S == {n \in Nat : m + n <= Len(name) => Fine(m + n)}
<1>0. Len(name) \in Nat /\ m \in Nat /\ m >= 1 /\ \A k \in 1 .. Len(name) : f[k] \in Seq(Symbols) /\ Len(f[k]) \in Nat
  BY DEF Longer
<1>1. 0 \in S
  <2>1. m + 0 = m
    BY <1>0
  <2> QED
    BY <1>0, <2>1
<1>2. ASSUME NEW n \in Nat, n \in S
      PROVE  n + 1 \in S
  <2> SUFFICES ASSUME m + (n + 1) <= Len(name)
               PROVE  Fine(m + (n + 1))
    OBVIOUS
  <2>1. /\ m + n \in 1 .. Len(name) /\ m + (n + 1) \in 2 .. Len(name) /\ m + (n + 1) \in 1 .. Len(name)
        /\ (m + (n + 1)) - 1 = m + n
    BY <1>0
  <2>2. Fine(m + n)
    BY <1>2, <2>1
  <2> DEFINE a == f[m + n]
  <2> DEFINE b == Esc(name[m + (n + 1)])
  <2>3. name[m + (n + 1)] \in Symbols
    BY <2>1, ElementOfSeq
  <2>4. f[m + (n + 1)] = Joins(a, b) /\ a \in Seq(Symbols) /\ b \in Seq(Symbols)
    <3>1. f[m + (n + 1)] = Joins(f[(m + (n + 1)) - 1], Esc(name[m + (n + 1)]))
      BY <2>1 DEF Longer
    <3> QED
      BY <1>0, <2>1, <2>3, <3>1, EscIs
  <2>5. Len(a) >= Len(f[m]) /\ \A i \in 1 .. Len(f[m]) : a[i] = f[m][i]
    BY <2>2
  <2> HIDE DEF a, b
  <2>6. /\ Len(a \o b) = Len(a) + Len(b) /\ Len(a) \in Nat /\ Len(b) \in Nat
        /\ \A i \in 1 .. Len(a) : (a \o b)[i] = a[i]
    BY <2>4, ConcatIs
  <2>7. f[m + (n + 1)] = a \o b
    BY <2>4 DEF Joins
  <2>8. m \in 1 .. Len(name) /\ Len(f[m]) \in Nat
    BY <1>0
  <2> QED
    BY <2>5, <2>6, <2>7, <2>8
<1>3. Nat \subseteq S
  <2> HIDE DEF S
  <2> QED
    BY <1>1, <1>2, Steps
<1> SUFFICES ASSUME NEW k \in m .. Len(name)
             PROVE  Fine(k)
  OBVIOUS
<1>4. k - m \in Nat /\ m + (k - m) = k
  BY <1>0
<1>5. k - m \in S
  BY <1>3, <1>4
<1> QED
  BY <1>0, <1>4, <1>5

\* Symbols that are no dot stand for themselves.
LEMMA PlainSymbols ==
    ASSUME NEW name \in Seq(Symbols), NEW f, Longer(f, name), NEW n \in 1 .. Len(name), \A i \in 1 .. n : name[i] # Dot
    PROVE  Len(f[n]) = n /\ \A i \in 1 .. n : f[n][i] = name[i]
<1> DEFINE Fine(k) == Len(f[k]) = k /\ \A i \in 1 .. k : f[k][i] = name[i]
<1> DEFINE S == {k \in Nat : 1 + k <= n => Fine(1 + k)}
<1>0. /\ Len(name) \in Nat /\ n \in Nat /\ \A k \in 1 .. Len(name) : f[k] \in Seq(Symbols) /\ Len(f[k]) \in Nat
      /\ \A k \in 1 .. Len(name) : name[k] \in Symbols
  BY ElementOfSeq DEF Longer
<1>1. 0 \in S
  <2>1. f[1] = Esc(name[1]) /\ name[1] # Dot /\ name[1] \in Symbols /\ 1 + 0 = 1
    BY <1>0 DEF Longer
  <2>2. Len(Esc(name[1])) = 1 /\ Esc(name[1])[1] = name[1]
    BY <2>1, EscIs
  <2>3. Fine(1)
    BY <2>1, <2>2
  <2> HIDE DEF Fine
  <2> QED
    BY <2>1, <2>3
<1>2. ASSUME NEW k \in Nat, k \in S
      PROVE  k + 1 \in S
  <2> SUFFICES ASSUME 1 + (k + 1) <= n
               PROVE  Fine(1 + (k + 1))
    OBVIOUS
  <2>1. /\ 1 + k \in 1 .. Len(name) /\ 1 + (k + 1) \in 2 .. Len(name) /\ 1 + (k + 1) \in 1 .. Len(name)
        /\ (1 + (k + 1)) - 1 = 1 + k
    BY <1>0
  <2>2. Fine(1 + k)
    BY <1>0, <1>2
  <2> DEFINE a == f[1 + k]
  <2> DEFINE x == name[1 + (k + 1)]
  <2>3. x \in Symbols /\ x # Dot
    BY <1>0, <2>1
  <2>4. f[1 + (k + 1)] = Joins(a, Esc(x)) /\ a \in Seq(Symbols)
    <3>1. f[1 + (k + 1)] = Joins(f[(1 + (k + 1)) - 1], Esc(name[1 + (k + 1)]))
      BY <2>1 DEF Longer
    <3> QED
      BY <1>0, <2>1, <3>1
  <2>5. Len(a) = 1 + k /\ \A i \in 1 .. 1 + k : a[i] = name[i]
    BY <2>2
  <2>5a. \A i \in 1 .. 1 + (k + 1) : i \in 1 .. 1 + k \/ i = 1 + (k + 1)
    OBVIOUS
  <2>5b. name[1 + (k + 1)] = x
    OBVIOUS
  <2> HIDE DEF a, x
  <2>6. Esc(x) \in Seq(Symbols) /\ Len(Esc(x)) = 1 /\ Esc(x)[1] = x
    BY <2>3, EscIs
  <2>7. /\ Len(a \o Esc(x)) = Len(a) + 1
        /\ \A i \in 1 .. Len(a) : (a \o Esc(x))[i] = a[i]
        /\ (a \o Esc(x))[Len(a) + 1] = x
    <3>1. Len(Esc(x)) = 1 /\ 1 \in 1 .. Len(Esc(x))
      BY <2>6
    <3> HIDE DEF Fine
    <3>2. /\ Len(a \o Esc(x)) = Len(a) + Len(Esc(x))
          /\ \A i \in 1 .. Len(a) : (a \o Esc(x))[i] = a[i]
          /\ \A i \in 1 .. Len(Esc(x)) : (a \o Esc(x))[Len(a) + i] = Esc(x)[i]
      BY <2>4, <2>6, ConcatIs
    <3> QED
      BY <2>6, <3>1, <3>2
  <2>8. f[1 + (k + 1)] = a \o Esc(x)
    BY <2>4 DEF Joins
  <2>9. Len(a) + 1 = 1 + (k + 1)
    BY <2>5
  <2>10. f[1 + (k + 1)][1 + (k + 1)] = name[1 + (k + 1)]
    BY <2>5b, <2>7, <2>8, <2>9
  <2>11. \A i \in 1 .. 1 + k : f[1 + (k + 1)][i] = name[i]
    BY <2>5, <2>7, <2>8
  <2> QED
    BY <2>5a, <2>7, <2>8, <2>9, <2>10, <2>11
<1>3. Nat \subseteq S
  <2> HIDE DEF S
  <2> QED
    BY <1>1, <1>2, Steps
<1>4. n - 1 \in Nat /\ 1 + (n - 1) = n /\ n <= n
  BY <1>0
<1>5. n - 1 \in S
  BY <1>3, <1>4
<1>6. Fine(n)
  BY <1>4, <1>5
<1> QED
  BY <1>6

\* A head without a dot is kept, and what is behind it is behind it still.
LEMMA HeadKept ==
    ASSUME NEW name \in Seq(Symbols), NEW n \in 1 .. Len(name), \A i \in 1 .. n : name[i] # Dot
    PROVE  /\ Sanitize(name) \in Seq(Symbols) /\ Len(Sanitize(name)) \in Nat /\ Len(Sanitize(name)) >= n
           /\ \A i \in 1 .. n : Sanitize(name)[i] = name[i]
<1>0. Len(name) \in Nat /\ name # <<>>
  OBVIOUS
<1>1. PICK f : Longer(f, name)
  BY <1>0, Escaped
<1>2. Len(f[n]) = n /\ \A i \in 1 .. n : f[n][i] = name[i]
  BY <1>1, PlainSymbols
<1>3. Len(name) \in n .. Len(name) /\ Len(name) \in 1 .. Len(name)
  BY <1>0
<1>4. Len(f[Len(name)]) >= Len(f[n]) /\ \A i \in 1 .. Len(f[n]) : f[Len(name)][i] = f[n][i]
  BY <1>1, <1>3, Stays
<1>5. Sanitize(name) = f[Len(name)] /\ f[Len(name)] \in Seq(Symbols)
  BY <1>1, <1>3 DEF Longer
<1> QED
  BY <1>2, <1>4, <1>5

\* A dot behind such a head is two symbols, and one behind the dot comes third.
LEMMA DotIsTwo ==
    ASSUME NEW name \in Seq(Symbols), NEW n \in 1 .. Len(name), n + 2 <= Len(name), \A i \in 1 .. n : name[i] # Dot,
           name[n + 1] = Dot, name[n + 2] # Dot
    PROVE  /\ Len(Sanitize(name)) >= n + 3
           /\ Sanitize(name)[n + 1] = Under /\ Sanitize(name)[n + 2] = Under /\ Sanitize(name)[n + 3] = name[n + 2]
<1>0. /\ Len(name) \in Nat /\ name # <<>> /\ n + 1 \in 2 .. Len(name) /\ n + 2 \in 2 .. Len(name) /\ (n + 1) - 1 = n
      /\ (n + 2) - 1 = n + 1 /\ n + 1 \in 1 .. Len(name) /\ n + 2 \in 1 .. Len(name) /\ n \in Nat
      /\ Len(name) \in n + 2 .. Len(name) /\ Len(name) \in 1 .. Len(name)
  OBVIOUS
<1>1. PICK f : Longer(f, name)
  BY <1>0, Escaped
<1>2. Len(f[n]) = n
  BY <1>1, PlainSymbols
<1>3. /\ f[n] \in Seq(Symbols) /\ f[n + 1] \in Seq(Symbols)
      /\ f[n + 1] = Joins(f[n], Esc(Dot)) /\ f[n + 2] = Joins(f[n + 1], Esc(name[n + 2]))
      /\ name[n + 1] \in Symbols /\ name[n + 2] \in Symbols
  <2>1. f[n + 1] = Joins(f[(n + 1) - 1], Esc(name[n + 1])) /\ f[n + 2] = Joins(f[(n + 2) - 1], Esc(name[n + 2]))
    BY <1>0, <1>1 DEF Longer
  <2>2. f[n] \in Seq(Symbols) /\ f[n + 1] \in Seq(Symbols)
    BY <1>0, <1>1 DEF Longer
  <2>3. name[n + 1] \in Symbols /\ name[n + 2] \in Symbols
    BY <1>0, ElementOfSeq
  <2> QED
    BY <1>0, <2>1, <2>2, <2>3
<1>4. /\ Esc(Dot) \in Seq(Symbols) /\ Len(Esc(Dot)) = 2 /\ Esc(Dot)[1] = Under /\ Esc(Dot)[2] = Under
      /\ Esc(name[n + 2]) \in Seq(Symbols) /\ Len(Esc(name[n + 2])) = 1 /\ Esc(name[n + 2])[1] = name[n + 2]
  BY <1>3, EscIs
<1>5. Len(f[n + 1]) = n + 2 /\ f[n + 1][n + 1] = Under /\ f[n + 1][n + 2] = Under
  <2> DEFINE a == f[n]
  <2> DEFINE b == Esc(Dot)
  <2>1. a \in Seq(Symbols) /\ b \in Seq(Symbols) /\ Len(a) = n /\ Len(b) = 2 /\ b[1] = Under /\ b[2] = Under /\ f[n + 1] = a \o b
    BY <1>2, <1>3, <1>4 DEF Joins
  <2> HIDE DEF a, b
  <2>2. Len(a \o b) = Len(a) + Len(b) /\ \A i \in 1 .. Len(b) : (a \o b)[Len(a) + i] = b[i]
    BY <2>1, ConcatIs
  <2>3. 1 \in 1 .. Len(b) /\ 2 \in 1 .. Len(b)
    <3>1. Len(b) = 2
      BY <2>1
    <3> QED
      BY ONLY <3>1
  <2>4. (a \o b)[Len(a) + 1] = Under /\ (a \o b)[Len(a) + 2] = Under
    BY <2>1, <2>2, <2>3
  <2>5. Len(a \o b) = n + 2 /\ (a \o b)[n + 1] = Under /\ (a \o b)[n + 2] = Under
    BY <2>1, <2>2, <2>4
  <2> QED
    BY <2>1, <2>5
<1>6. Len(f[n + 2]) = n + 3 /\ f[n + 2][n + 1] = Under /\ f[n + 2][n + 2] = Under /\ f[n + 2][n + 3] = name[n + 2]
  <2> DEFINE a == f[n + 1]
  <2> DEFINE b == Esc(name[n + 2])
  <2>1. /\ a \in Seq(Symbols) /\ b \in Seq(Symbols) /\ Len(a) = n + 2 /\ a[n + 1] = Under /\ a[n + 2] = Under
        /\ Len(b) = 1 /\ b[1] = name[n + 2] /\ f[n + 2] = a \o b
    BY <1>3, <1>4, <1>5 DEF Joins
  <2> HIDE DEF a, b
  <2>2. /\ Len(a \o b) = Len(a) + Len(b) /\ \A i \in 1 .. Len(a) : (a \o b)[i] = a[i]
        /\ \A i \in 1 .. Len(b) : (a \o b)[Len(a) + i] = b[i]
    BY <2>1, ConcatIs
  <2>3. 1 \in 1 .. Len(b) /\ n + 1 \in 1 .. Len(a) /\ n + 2 \in 1 .. Len(a) /\ (n + 2) + 1 = n + 3
    <3>1. Len(b) = 1 /\ Len(a) = n + 2 /\ n \in Nat
      BY <1>0, <2>1
    <3> QED
      BY ONLY <3>1
  <2>4. (a \o b)[n + 1] = a[n + 1] /\ (a \o b)[n + 2] = a[n + 2]
    BY <2>2, <2>3
  <2>5. (a \o b)[Len(a) + 1] = b[1]
    BY <2>2, <2>3
  <2>6. Len(a \o b) = (n + 2) + 1
    BY <2>1, <2>2
  <2> QED
    BY <1>0, <2>1, <2>3, <2>4, <2>5, <2>6
<1>7. /\ Len(f[Len(name)]) >= Len(f[n + 2]) /\ \A i \in 1 .. Len(f[n + 2]) : f[Len(name)][i] = f[n + 2][i]
      /\ Len(f[Len(name)]) \in Nat
  <2>1. \A k \in n + 2 .. Len(name) : Len(f[k]) >= Len(f[n + 2]) /\ \A i \in 1 .. Len(f[n + 2]) : f[k][i] = f[n + 2][i]
    BY <1>0, <1>1, Stays
  <2>2. f[Len(name)] \in Seq(Symbols)
    BY <1>0, <1>1 DEF Longer
  <2> QED
    BY <1>0, <2>1, <2>2
<1>8. Sanitize(name) = f[Len(name)]
  BY <1>1 DEF Longer
<1>9. n + 1 \in 1 .. n + 3 /\ n + 2 \in 1 .. n + 3 /\ n + 3 \in 1 .. n + 3
  BY <1>0
<1> QED
  BY <1>6, <1>7, <1>8, <1>9

\* A name with this namespace in front.
Leads(v, w) ==
    /\ Len(v) + 2 <= Len(w) /\ \A i \in 1 .. Len(v) : w[i] = v[i]
    /\ w[Len(v) + 1] = Under /\ w[Len(v) + 2] = Under

LEMMA SubIs ==
    ASSUME NEW w \in Seq(Symbols), NEW m \in Nat, NEW n \in Nat, m >= 1, m <= n, n <= Len(w)
    PROVE  /\ SubSeq(w, m, n) \in Seq(Symbols) /\ Len(SubSeq(w, m, n)) = n - m + 1
           /\ \A i \in 1 .. n - m + 1 : SubSeq(w, m, n)[i] = w[m + i - 1]
<1>1. m \in Int /\ n \in Int /\ Len(w) \in Nat /\ \A i \in m .. n : w[i] \in Symbols
  BY ElementOfSeq
<1> QED
  BY <1>1, SubSeqProperties

LEMMA CutAt ==
    ASSUME NEW w \in Seq(Symbols), NEW i \in 1 .. Len(w) - 1
    PROVE  i \in Cuts(w) <=> w[i] = Under /\ w[i + 1] = Under
<1>0. Len(w) \in Nat /\ i \in Nat /\ i + 1 \in Nat /\ i + 1 <= Len(w) /\ i >= 1 /\ i <= i + 1 /\ (i + 1) - i + 1 = 2
  OBVIOUS
<1> DEFINE s == SubSeq(w, i, i + 1)
<1>1. s \in Seq(Symbols) /\ Len(s) = 2 /\ \A j \in 1 .. 2 : s[j] = w[i + j - 1]
  BY <1>0, SubIs
<1>2. s[1] = w[i] /\ s[2] = w[i + 1]
  <2>1. i + 1 - 1 = i /\ i + 2 - 1 = i + 1 /\ 1 \in 1 .. 2 /\ 2 \in 1 .. 2
    BY <1>0
  <2> QED
    BY <1>1, <2>1
<1>3. NameSpace \in Seq(Symbols) /\ Len(NameSpace) = 2 /\ NameSpace[1] = Under /\ NameSpace[2] = Under
  <2>1. Under \in Symbols
    BY DEF Symbols
  <2> QED
    BY <2>1, OneTwo DEF NameSpace, Under
<1>4. i \in Cuts(w) <=> s = NameSpace
  BY DEF Cuts
<1> HIDE DEF s
<1>5. s = NameSpace <=> s[1] = Under /\ s[2] = Under
  <2>1. ASSUME s[1] = Under, s[2] = Under PROVE s = NameSpace
    <3>1. \A j \in 1 .. 2 : j = 1 \/ j = 2
      OBVIOUS
    <3>2. \A j \in 1 .. 2 : s[j] = NameSpace[j]
      BY <1>3, <2>1, <3>1
    <3> QED
      BY <1>1, <1>3, <3>2, SeqEqual
  <2> QED
    BY <1>3, <2>1
<1> QED
  BY <1>2, <1>4, <1>5

\* A name is split behind the namespace in front of it, when that has no separator and does not end like one.
LEMMA SplitsThere ==
    ASSUME NEW v \in Seq(Symbols), v # <<>>, NEW w \in Seq(Symbols), Leads(v, w), Cuts(v) = {}, v[Len(v)] # Under
    PROVE  Splits(w) /\ Prefix(w) = v
<1>0. Len(v) \in Nat /\ Len(w) \in Nat /\ Len(v) >= 1 /\ Len(v) + 1 \in 1 .. Len(w) - 1 /\ Len(v) + 2 = (Len(v) + 1) + 1
  <2>1. Len(v) + 2 <= Len(w)
    BY DEF Leads
  <2> QED
    BY <2>1, EmptySeq
<1>1. Len(v) + 1 \in Cuts(w)
  BY <1>0, CutAt DEF Leads
<1>2. ASSUME NEW i \in Cuts(w), i <= Len(v)
      PROVE  FALSE
  <2>0. i \in 1 .. Len(w) - 1 /\ i \in Nat
    BY <1>0 DEF Cuts
  <2>1. w[i] = Under /\ w[i + 1] = Under /\ w[i] = v[i]
    BY <1>2, <2>0, CutAt DEF Leads
  <2>2. CASE i = Len(v)
    BY <2>1, <2>2
  <2>3. CASE i < Len(v)
    <3>1. i \in 1 .. Len(v) - 1 /\ i + 1 \in 1 .. Len(v)
      BY <1>0, <2>0, <2>3
    <3>2. w[i + 1] = v[i + 1]
      BY <3>1 DEF Leads
    <3> QED
      BY <2>1, <3>1, <3>2, CutAt
  <2> QED
    BY <1>0, <1>2, <2>0, <2>2, <2>3
<1>3. Cuts(w) \subseteq Nat
  BY <1>0 DEF Cuts
<1>4. Min(Cuts(w)) = Len(v) + 1
  <2>1. \A i \in Cuts(w) : Len(v) + 1 <= i
    BY <1>0, <1>2, <1>3
  <2>2. \A x \in Cuts(w) : (\A y \in Cuts(w) : x <= y) => x = Len(v) + 1
    BY <1>0, <1>1, <1>3, <2>1
  <2> DEFINE S == Cuts(w)
  <2>3. Len(v) + 1 \in S /\ \A y \in S : Len(v) + 1 <= y
    BY <1>1, <2>1
  <2>4. \A x \in S : (\A y \in S : x <= y) => x = Len(v) + 1
    BY <2>2
  <2> HIDE DEF S
  <2>5. (CHOOSE x \in S : \A y \in S : x <= y) = Len(v) + 1
    BY <2>3, <2>4
  <2> QED
    BY <2>5 DEF Min, S
<1>5. Prefix(w) = SubSeq(w, 1, Len(v))
  BY <1>0, <1>4 DEF Prefix
<1> DEFINE s == SubSeq(w, 1, Len(v))
<1>6. s \in Seq(Symbols) /\ Len(s) = Len(v) /\ \A i \in 1 .. Len(v) : s[i] = w[i]
  <2>1. Len(v) <= Len(w) /\ Len(v) - 1 + 1 = Len(v) /\ \A i \in 1 .. Len(v) : 1 + i - 1 = i
    BY <1>0
  <2> QED
    BY <1>0, <2>1, SubIs
<1> HIDE DEF s
<1>7. s = v
  <2>1. \A i \in 1 .. Len(s) : s[i] = v[i]
    BY <1>6 DEF Leads
  <2> QED
    BY <1>6, <2>1, SeqEqual
<1> QED
  BY <1>1, <1>5, <1>7 DEF Splits, s

\* Two namespaces in front of one name are one, when no third underscore is behind the separator.
LEMMA OneNameSpace ==
    ASSUME NEW u \in Seq(Symbols), NEW v \in Seq(Symbols), NEW w \in Seq(Symbols), u # <<>>, v # <<>>,
           Cuts(u) = {}, Cuts(v) = {}, u[Len(u)] # Under, Leads(u, w), Leads(v, w), w[Len(u) + 3] # Under
    PROVE  v = u
<1>0. Len(u) \in Nat /\ Len(v) \in Nat /\ Len(u) >= 1 /\ Len(v) >= 1
  BY EmptySeq
<1>1. CASE Len(v) < Len(u)
  <2>1. Len(v) + 1 \in 1 .. Len(u)
    BY <1>0, <1>1
  <2>2. u[Len(v) + 1] = Under
    BY <2>1 DEF Leads
  <2>3. CASE Len(v) + 1 = Len(u)
    BY <2>2, <2>3
  <2>4. CASE Len(v) + 1 < Len(u)
    <3>1. Len(v) + 1 \in 1 .. Len(u) - 1 /\ (Len(v) + 1) + 1 = Len(v) + 2 /\ Len(v) + 2 \in 1 .. Len(u)
      BY <1>0, <2>4
    <3>2. u[Len(v) + 2] = Under
      BY <3>1 DEF Leads
    <3> QED
      BY <2>2, <3>1, <3>2, CutAt
  <2> QED
    BY <1>0, <1>1, <2>3, <2>4
<1>2. CASE Len(v) = Len(u) + 1
  <2>1. Len(v) + 2 = Len(u) + 3
    BY <1>0, <1>2
  <2> QED
    BY <2>1 DEF Leads
<1>3. CASE Len(v) >= Len(u) + 2
  <2>1. /\ Len(u) + 1 \in 1 .. Len(v) - 1 /\ Len(u) + 1 \in 1 .. Len(v) /\ Len(u) + 2 \in 1 .. Len(v)
        /\ (Len(u) + 1) + 1 = Len(u) + 2
    BY <1>0, <1>3
  <2>2. v[Len(u) + 1] = Under /\ v[Len(u) + 2] = Under
    BY <2>1 DEF Leads
  <2> QED
    BY <2>1, <2>2, CutAt
<1>4. CASE Len(v) = Len(u)
  <2>1. \A i \in 1 .. Len(v) : v[i] = u[i]
    BY <1>4 DEF Leads
  <2> QED
    BY <1>4, <2>1, SeqEqual
<1> QED
  BY <1>0, <1>1, <1>2, <1>3, <1>4

\* A connector's tool has its namespace in front, and so has what it escapes to.
LEMMA WireLeads ==
    ASSUME NEW v \in Seq(Symbols), NEW t \in Seq(Symbols)
    PROVE  Wire(v, t) \in Seq(Symbols) /\ Leads(v, Wire(v, t))
<1>1. NameSpace \in Seq(Symbols) /\ Len(NameSpace) = 2 /\ NameSpace[1] = Under /\ NameSpace[2] = Under
  <2>1. Under \in Symbols
    BY DEF Symbols
  <2> QED
    BY <2>1, OneTwo DEF NameSpace, Under
<1> DEFINE a == v \o NameSpace
<1>2. /\ a \in Seq(Symbols) /\ Len(a) = Len(v) + Len(NameSpace) /\ Len(v) \in Nat /\ \A i \in 1 .. Len(v) : a[i] = v[i]
      /\ \A i \in 1 .. Len(NameSpace) : a[Len(v) + i] = NameSpace[i]
  BY <1>1, ConcatIs
<1>3. Len(a) = Len(v) + 2 /\ a[Len(v) + 1] = Under /\ a[Len(v) + 2] = Under
  <2>1. 1 \in 1 .. Len(NameSpace) /\ 2 \in 1 .. Len(NameSpace)
    <3>1. Len(NameSpace) = 2
      BY <1>1
    <3> QED
      BY ONLY <3>1
  <2> QED
    BY <1>1, <1>2, <2>1
<1>4. Wire(v, t) = a \o t
  BY DEF Wire
<1> HIDE DEF a
<1>5. a \o t \in Seq(Symbols) /\ Len(a \o t) = Len(a) + Len(t) /\ Len(t) \in Nat /\ \A i \in 1 .. Len(a) : (a \o t)[i] = a[i]
  BY <1>2, ConcatIs
<1>6. Leads(v, a \o t)
  <2>1. Len(v) + 1 \in 1 .. Len(a) /\ Len(v) + 2 \in 1 .. Len(a) /\ \A i \in 1 .. Len(v) : i \in 1 .. Len(a)
    BY <1>2, <1>3
  <2>2. Len(v) + 2 <= Len(a \o t)
    BY <1>2, <1>3, <1>5
  <2> QED
    BY <1>2, <1>3, <1>5, <2>1, <2>2 DEF Leads
<1> QED
  BY <1>4, <1>5, <1>6

LEMMA PrefixLeads ==
    ASSUME NEW v \in Seq(Symbols), NEW w \in Seq(Symbols), IsPrefix(Wire(v, <<>>), w)
    PROVE  Leads(v, w)
<1>0. Len(v) \in Nat /\ Len(w) \in Nat
  OBVIOUS
<1> DEFINE p == Wire(v, <<>>)
<1>1. p \in Seq(Symbols) /\ Leads(v, p)
  <2>1. <<>> \in Seq(Symbols)
    OBVIOUS
  <2> QED
    BY <2>1, WireLeads
<1>2. Len(p) <= Len(w) /\ SubSeq(p, 1, Len(p)) = SubSeq(w, 1, Len(p))
  BY DEF IsPrefix
<1> HIDE DEF p
<1>3. Len(p) \in Nat /\ Len(v) + 2 <= Len(p) /\ 1 <= Len(p) /\ Len(p) - 1 + 1 = Len(p) /\ \A i \in 1 .. Len(p) : 1 + i - 1 = i
  BY <1>0, <1>1 DEF Leads
<1>4. \A i \in 1 .. Len(p) : SubSeq(p, 1, Len(p))[i] = p[i]
  BY <1>1, <1>3, SubIs
<1>5. \A i \in 1 .. Len(p) : SubSeq(w, 1, Len(p))[i] = w[i]
  BY <1>2, <1>3, SubIs
<1>6. \A i \in 1 .. Len(p) : w[i] = p[i]
  BY <1>2, <1>4, <1>5
<1>7. Len(v) + 1 \in 1 .. Len(p) /\ Len(v) + 2 \in 1 .. Len(p) /\ (\A i \in 1 .. Len(v) : i \in 1 .. Len(p)) /\ Len(v) + 2 <= Len(w)
  BY <1>0, <1>2, <1>3
<1> QED
  BY <1>1, <1>6, <1>7 DEF Leads

LEMMA EscapeLeads ==
    ASSUME NEW v \in Seq(Symbols), NEW w \in Seq(Symbols), Leads(v, w), Dot \notin ToSet(v)
    PROVE  Sanitize(w) \in Seq(Symbols) /\ Leads(v, Sanitize(w))
<1> DEFINE n == Len(v) + 2
<1>0. Len(v) \in Nat /\ n \in 1 .. Len(w) /\ n \in Nat
  BY DEF Leads
<1>1. \A i \in 1 .. n : w[i] # Dot
  <2> SUFFICES ASSUME NEW i \in 1 .. n PROVE w[i] # Dot
    OBVIOUS
  <2>1. CASE i \in 1 .. Len(v)
    <3>1. w[i] = v[i] /\ v[i] \in ToSet(v)
      BY <2>1 DEF Leads, ToSet
    <3> QED
      BY <3>1
  <2>2. CASE i = Len(v) + 1 \/ i = Len(v) + 2
    <3>1. Under # Dot
      BY DEF Under, Dot
    <3> QED
      BY <2>2, <3>1 DEF Leads
  <2> QED
    BY <1>0, <2>1, <2>2
<1>2. /\ Sanitize(w) \in Seq(Symbols) /\ Len(Sanitize(w)) \in Nat /\ Len(Sanitize(w)) >= n
      /\ \A i \in 1 .. n : Sanitize(w)[i] = w[i]
  <2> HIDE DEF n
  <2> QED
    BY <1>0, <1>1, HeadKept
<1>3. Len(v) + 1 \in 1 .. n /\ Len(v) + 2 \in 1 .. n /\ \A i \in 1 .. Len(v) : i \in 1 .. n
  BY <1>0
<1> QED
  BY <1>2, <1>3 DEF Leads

-----------------------------------------------------------------------------
(***************************************************************************)
(* Who serves a name.                                                        *)
(***************************************************************************)

LEMMA SidesApart ==
    /\ GuestSide # BotSide /\ GuestSide # StoreSide /\ GuestSide # SkillSide
    /\ BotSide # StoreSide /\ BotSide # SkillSide /\ StoreSide # SkillSide
<1> DEFINE s == <<GuestSide, BotSide, StoreSide, SkillSide>>
<1>1. \A i, j \in DOMAIN s : s[i] = s[j] => i = j
  BY NamesAssumption DEF IsInjective
<1>2. DOMAIN s = 1 .. 4
  OBVIOUS
<1>3. s[1] = GuestSide /\ s[2] = BotSide /\ s[3] = StoreSide /\ s[4] = SkillSide
  OBVIOUS
<1> HIDE DEF s
<1>4. 1 \in 1 .. 4 /\ 2 \in 1 .. 4 /\ 3 \in 1 .. 4 /\ 4 \in 1 .. 4
  OBVIOUS
<1> QED
  BY <1>1, <1>2, <1>3, <1>4

LEMMA ServingIs ==
    /\ Serving(GuestSide) = GuestTools /\ Serving(BotSide) = BotTools
    /\ Serving(StoreSide) = {SecretRequest} /\ Serving(SkillSide) = SkillTools
BY SidesApart DEF Serving

LEMMA OwnToolIs ==
    ASSUME NEW name \in OwnTools
    PROVE  /\ name \in Seq(Symbols) /\ Cuts(name) = {}
           /\ \E dot \in 2 .. Len(name) - 1 :
                 /\ name[dot] = Dot /\ \A i \in 1 .. dot - 1 : name[i] # Dot
                 /\ SubSeq(name, 1, dot - 1) \in Reserved \cup (IF name \in SkillTools THEN {<<"skill">>} ELSE {})
                 /\ name[dot - 1] # Under /\ name[dot + 1] # Under /\ name[dot + 1] # Dot
<1> DEFINE spaces == Reserved \cup (IF name \in SkillTools THEN {<<"skill">>} ELSE {})
<1>1. name \in Seq(STRING) /\ Cuts(name) = {} /\ Spaced(name, spaces)
  BY NamesAssumption
<1> HIDE DEF spaces
<1>2. \E dot \in 2 .. Len(name) - 1 :
         /\ name[dot] = Dot /\ \A i \in 1 .. dot - 1 : name[i] # Dot
         /\ SubSeq(name, 1, dot - 1) \in spaces
         /\ name[dot - 1] # Under /\ name[dot + 1] # Under /\ name[dot + 1] # Dot
  <2>1. Spaced(name, spaces)
    BY <1>1
  <2> QED
    BY <2>1, Zenon DEF Spaced, Under, Dot
<1>3. name \in Seq(Symbols)
  BY <1>1, InSymbols
<1> QED
  BY <1>1, <1>2, <1>3 DEF spaces

\* An id that may be a prefix has no separator and no dot.
LEMMA IdIs ==
    ASSUME NEW v \in DOMAIN Wants, ValidId(v)
    PROVE  v \in Seq(Symbols) /\ Tool[v] \in Seq(Symbols) /\ v # <<>> /\ Cuts(v) = {} /\ Dot \notin ToSet(v) /\ v \notin Reserved
<1>1. v \in Seq(STRING) /\ Tool[v] \in Seq(STRING)
  BY NamesAssumption
<1>2. v # <<>> /\ Cuts(v) = {} /\ Dot \notin ToSet(v) /\ Lowered(v) \notin Reserved
  BY SourcesAssumption DEF ValidId, Dot
<1>3. v \notin Reserved
  <2>1. SUFFICES ASSUME v \in Reserved PROVE FALSE
    OBVIOUS
  <2>2. \A i \in DOMAIN v : v[i] \notin DOMAIN Lower
    BY <2>1, SourcesAssumption
  <2>3. Lowered(v) = [i \in DOMAIN v |-> v[i]]
    BY <2>2 DEF Lowered
  <2>4. v = [i \in DOMAIN v |-> v[i]]
    BY <1>1
  <2> QED
    BY <1>2, <2>1, <2>3, <2>4
<1> QED
  BY <1>1, <1>2, <1>3, InSymbols

\* What a tool of the daemon's escapes to is split behind the tool's own namespace.
LEMMA OwnEscapes ==
    ASSUME NEW name \in OwnTools
    PROVE  /\ Sanitize(name) \in Seq(Symbols)
           /\ \E u \in Reserved \cup (IF name \in SkillTools THEN {<<"skill">>} ELSE {}) :
                 /\ u \in Seq(Symbols) /\ u # <<>> /\ Cuts(u) = {} /\ u[Len(u)] # Under
                 /\ Leads(u, Sanitize(name)) /\ Sanitize(name)[Len(u) + 3] # Under
<1> DEFINE spaces == Reserved \cup (IF name \in SkillTools THEN {<<"skill">>} ELSE {})
<1>1. /\ name \in Seq(Symbols) /\ Cuts(name) = {}
      /\ \E dot \in 2 .. Len(name) - 1 :
            /\ name[dot] = Dot /\ \A i \in 1 .. dot - 1 : name[i] # Dot
            /\ SubSeq(name, 1, dot - 1) \in spaces
            /\ name[dot - 1] # Under /\ name[dot + 1] # Under /\ name[dot + 1] # Dot
  BY OwnToolIs
<1> HIDE DEF spaces
<1>3. PICK dot \in 2 .. Len(name) - 1 :
         /\ name[dot] = Dot /\ \A i \in 1 .. dot - 1 : name[i] # Dot
         /\ SubSeq(name, 1, dot - 1) \in spaces
         /\ name[dot - 1] # Under /\ name[dot + 1] # Under /\ name[dot + 1] # Dot
  BY <1>1
<1> DEFINE n == dot - 1
<1>4. /\ n \in 1 .. Len(name) /\ n \in Nat /\ n >= 1 /\ n + 1 = dot /\ n + 2 = dot + 1 /\ n + 2 <= Len(name) /\ Len(name) \in Nat
      /\ n + 1 \in 1 .. Len(name)
  BY <1>1
<1>5. /\ \A i \in 1 .. n : name[i] # Dot
      /\ name[n + 1] = Dot /\ name[n + 2] # Dot /\ name[n + 2] # Under /\ name[n] # Under /\ SubSeq(name, 1, n) \in spaces
  BY <1>3, <1>4
<1> HIDE DEF n
<1> DEFINE w == Sanitize(name)
<1>6. /\ w \in Seq(Symbols) /\ Len(w) \in Nat /\ \A i \in 1 .. n : w[i] = name[i]
      /\ Len(w) >= n + 3 /\ w[n + 1] = Under /\ w[n + 2] = Under /\ w[n + 3] = name[n + 2]
  <2>1. name \in Seq(Symbols) /\ n \in 1 .. Len(name) /\ n + 2 <= Len(name)
    BY <1>1, <1>4
  <2>2. w \in Seq(Symbols) /\ Len(w) \in Nat /\ \A i \in 1 .. n : w[i] = name[i]
    BY <1>5, <2>1, HeadKept
  <2>3. Len(w) >= n + 3 /\ w[n + 1] = Under /\ w[n + 2] = Under /\ w[n + 3] = name[n + 2]
    BY <1>5, <2>1, DotIsTwo
  <2> QED
    BY <2>2, <2>3
<1> DEFINE u == SubSeq(name, 1, n)
<1>7. u \in Seq(Symbols) /\ Len(u) = n /\ \A i \in 1 .. n : u[i] = name[i]
  <2>1. n <= Len(name) /\ n - 1 + 1 = n /\ 1 <= n /\ 1 \in Nat /\ \A i \in 1 .. n : 1 + i - 1 = i
    BY <1>4
  <2> QED
    BY <1>1, <1>4, <2>1, SubIs
<1>8. u \in spaces
  BY <1>5
<1> HIDE DEF u, w
<1>9. u # <<>>
  BY <1>4, <1>7, EmptySeq
<1>10. Leads(u, w)
  <2>1. Len(u) + 2 <= Len(w) /\ Len(u) + 1 = n + 1 /\ Len(u) + 2 = n + 2
    BY <1>4, <1>6, <1>7
  <2>2. \A i \in 1 .. Len(u) : w[i] = u[i]
    BY <1>6, <1>7
  <2>3. w[Len(u) + 1] = Under /\ w[Len(u) + 2] = Under
    BY <1>6, <2>1
  <2> QED
    BY ONLY <2>1, <2>2, <2>3 DEF Leads
<1>11. u[Len(u)] # Under /\ w[Len(u) + 3] # Under
  <2>1. n \in 1 .. n
    BY <1>4
  <2> QED
    BY <1>5, <1>6, <1>7, <2>1
<1>12. Cuts(u) = {}
  <2> SUFFICES ASSUME NEW i \in Cuts(u) PROVE FALSE
    OBVIOUS
  <2>1. i \in 1 .. Len(u) - 1
    BY DEF Cuts
  <2>2. i \in 1 .. n /\ i + 1 \in 1 .. n /\ i \in 1 .. Len(name) - 1
    BY <1>4, <1>7, <2>1
  <2>3. u[i] = Under /\ u[i + 1] = Under
    BY <1>7, <2>1, CutAt
  <2>4. name[i] = Under /\ name[i + 1] = Under
    BY <1>7, <2>2, <2>3
  <2>5. i \in Cuts(name)
    BY <1>1, <2>2, <2>4, CutAt
  <2> QED
    BY <1>1, <2>5
<1> QED
  BY <1>6, <1>7, <1>8, <1>9, <1>10, <1>11, <1>12 DEF spaces, w

\* It is behind no connector's id, but for a connector called "skill", and is no tool of the daemon's.
LEMMA NotBehind ==
    ASSUME NEW name \in OwnTools
    PROVE  /\ \A v \in DOMAIN Wants : ValidId(v) /\ Leads(v, Sanitize(name)) => v = <<"skill">> /\ name \in SkillTools
           /\ Sanitize(name) \notin OwnTools
<1> DEFINE w == Sanitize(name)
<1>1. w \in Seq(Symbols)
  BY OwnEscapes
<1>2. PICK u \in Reserved \cup (IF name \in SkillTools THEN {<<"skill">>} ELSE {}) :
         /\ u \in Seq(Symbols) /\ u # <<>> /\ Cuts(u) = {} /\ u[Len(u)] # Under
         /\ Leads(u, w) /\ w[Len(u) + 3] # Under
  BY OwnEscapes
<1> HIDE DEF w
<1>3. ASSUME NEW v \in DOMAIN Wants, ValidId(v), Leads(v, w)
      PROVE  v = <<"skill">> /\ name \in SkillTools
  <2>1. v \in Seq(Symbols) /\ v # <<>> /\ Cuts(v) = {} /\ v \notin Reserved
    BY <1>3, IdIs
  <2>2. v = u
    BY <1>1, <1>2, <1>3, <2>1, OneNameSpace
  <2> QED
    BY <1>2, <2>1, <2>2
<1>4. Splits(w)
  BY <1>1, <1>2, SplitsThere
<1>5. w \notin OwnTools
  BY <1>4, OwnToolIs DEF Splits
<1> QED
  BY <1>3, <1>5 DEF w

LEMMA EscapeIsName ==
    ASSUME NEW name \in Seq(Symbols), name # <<>>
    PROVE  Sanitize(name) \in Seq(Symbols)
<1>1. PICK f : Longer(f, name)
  BY Escaped
<1>2. Len(name) \in 1 .. Len(name)
  BY EmptySeq
<1> QED
  BY <1>1, <1>2 DEF Longer

\* What a call goes by: a name that is its tool's, or that splits off its owner.
NamedFor(c, name) ==
    LET owner == Ask[c].owner
    IN /\ name \in Seq(Symbols)
       /\ owner \in Sides /\ (owner = SkillSide => ~SkillsTaken) => name = Ask[c].tool
       /\ owner \in Configured => Leads(owner, name)

\* Every configured connector has an id that may be a prefix; what was heard is of these.
IdsFit ==
    /\ hub.heard \subseteq Configured /\ hub.waits \subseteq Configured
    /\ \A v \in Configured : v \in DOMAIN Wants /\ ValidId(v)

LEMMA CallIs ==
    ASSUME NEW c \in Calls
    PROVE  \/ Ask[c].owner \in Sides /\ Ask[c].tool \in Serving(Ask[c].owner) /\ Ask[c].tool \in OwnTools
           \/ Ask[c].owner \in DOMAIN Wants /\ Ask[c].tool \in Seq(Symbols) /\ IsPrefix(Wire(Ask[c].owner, <<>>), Ask[c].tool)
<1>1. \/ Ask[c].owner \in Sides /\ Ask[c].tool \in Serving(Ask[c].owner)
      \/ Ask[c].owner \in DOMAIN Wants /\ Ask[c].tool \in Seq(STRING) /\ IsPrefix(Wire(Ask[c].owner, <<>>), Ask[c].tool)
  BY NamesAssumption
<1>2. CASE Ask[c].owner \in Sides /\ Ask[c].tool \in Serving(Ask[c].owner)
  BY <1>2, ServingIs DEF Sides, OwnTools
<1>3. CASE Ask[c].owner \in DOMAIN Wants /\ Ask[c].tool \in Seq(STRING) /\ IsPrefix(Wire(Ask[c].owner, <<>>), Ask[c].tool)
  BY <1>3, InSymbols
<1> QED
  BY <1>1, <1>2, <1>3

\* A call goes to its owner; to the guest, when it is for the skills and there are none.
LEMMA ServedByOwner ==
    ASSUME NEW c \in Calls, IdsFit, NEW name, NamedFor(c, name)
    PROVE  /\ Ask[c].owner \in Sides /\ (Ask[c].owner = SkillSide => ~SkillsTaken) =>
                 \/ Server(name) = Ask[c].owner
                 \/ Ask[c].owner = SkillSide /\ Server(name) = GuestSide /\ ~AnyExist
           /\ Ask[c].owner \in Configured /\ ~Trails(Ask[c].owner) => Server(name) = Ask[c].owner
<1> DEFINE owner == Ask[c].owner
<1>1. ASSUME owner \in Sides, owner = SkillSide => ~SkillsTaken
      PROVE  Server(name) = owner \/ (owner = SkillSide /\ Server(name) = GuestSide /\ ~AnyExist)
  <2>1. name = Ask[c].tool /\ owner \notin DOMAIN Wants
    BY <1>1, NamesAssumption DEF NamedFor
  <2>2. name \in Serving(owner) /\ name \in OwnTools
    BY <2>1, CallIs
  <2>3. Cuts(name) = {} /\ ~OwnsName(name)
    BY <2>2, OwnToolIs DEF OwnsName, Splits
  <2>4. \A side \in Sides : name \in Serving(side) => side = owner
    BY <1>1, <2>2, NamesAssumption
  <2> HIDE DEF owner
  <2>5. CASE owner = GuestSide
    BY <2>3, <2>4, <2>5, ServingIs, SidesApart DEF Server, Sides
  <2>6. CASE owner = BotSide
    BY <2>2, <2>3, <2>4, <2>6, ServingIs, SidesApart DEF Server, Sides
  <2>7. CASE owner = StoreSide
    BY <2>2, <2>3, <2>4, <2>7, ServingIs, SidesApart DEF Server, Sides
  <2>8. CASE owner = SkillSide
    BY <2>2, <2>3, <2>4, <2>8, ServingIs, SidesApart DEF Server, Sides
  <2> QED
    BY <1>1, <2>5, <2>6, <2>7, <2>8 DEF Sides
<1>2. ASSUME owner \in Configured, ~Trails(owner)
      PROVE  Server(name) = owner
  <2>1. /\ owner \in Seq(Symbols) /\ owner # <<>> /\ Cuts(owner) = {} /\ Leads(owner, name) /\ name \in Seq(Symbols)
    BY <1>2, IdIs DEF IdsFit, NamedFor
  <2>2. owner[Len(owner)] # Under
    BY <1>2 DEF Trails, Under
  <2>3. Splits(name) /\ Prefix(name) = owner
    BY <2>1, <2>2, SplitsThere
  <2>4. name \notin OwnTools
    BY <2>3, OwnToolIs DEF Splits
  <2> QED
    BY <1>2, <2>3, <2>4 DEF Server, OwnsName, OwnTools
<1> QED
  BY <1>1, <1>2

\* A name from a model stands for what it was shown, or is the name it was shown, when that is another tool's
\* or two escape to it.
LEMMA RestoredIs ==
    ASSUME NEW tool, NEW offered, tool \in offered, IsFiniteSet(offered)
    PROVE  \/ Restore(Sanitize(tool), offered) = tool
           \/ /\ Restore(Sanitize(tool), offered) = Sanitize(tool)
              /\ \/ Sanitize(tool) \in offered
                 \/ \E other \in offered : other # tool /\ Sanitize(other) = Sanitize(tool)
<1> DEFINE name == Sanitize(tool)
<1> DEFINE candidates == {id \in offered : Sanitize(id) = name}
<1>1. tool \in candidates /\ candidates \subseteq offered
  OBVIOUS
<1>2. IsFiniteSet(candidates)
  BY <1>1, FS_Subset
<1>3. Restore(name, offered) = IF name \in offered \/ Cardinality(candidates) > 1 THEN name
                               ELSE IF candidates = {} THEN Unsanitize(name) ELSE CHOOSE id \in candidates : TRUE
  BY DEF Restore
<1>4. \A id \in candidates : id \in offered /\ Sanitize(id) = name
  OBVIOUS
<1> HIDE DEF name, candidates
<1>5. CASE candidates = {tool}
  <2>1. Cardinality(candidates) = 1
    BY <1>5, FS_Singleton
  <2>2. (CHOOSE id \in candidates : TRUE) = tool
    BY <1>5
  <2>3. ~(Cardinality(candidates) > 1) /\ candidates # {}
    BY <1>5, <2>1
  <2>4. Restore(name, offered) = IF name \in offered THEN name ELSE tool
    BY <1>3, <2>2, <2>3
  <2> QED
    BY <2>4 DEF name
<1>6. CASE candidates # {tool}
  <2>1. PICK other \in candidates : other # tool
    BY <1>1, <1>6
  <2>2. Cardinality(candidates) > 1
    <3>1. {tool, other} \subseteq candidates
      BY <1>1, <2>1
    <3>2. Cardinality({tool, other}) <= Cardinality(candidates) /\ Cardinality(candidates) \in Nat
      BY <1>2, <3>1, FS_Subset, FS_CardinalityType
    <3>3. Cardinality({tool, other}) = 2
      <4>1. IsFiniteSet({tool}) /\ Cardinality({tool}) = 1
        BY FS_Singleton
      <4>2. {tool} \cup {other} = {tool, other} /\ other \notin {tool}
        BY <2>1
      <4>3. Cardinality({tool} \cup {other}) = Cardinality({tool}) + 1
        BY <4>1, <4>2, FS_AddElement
      <4> QED
        BY <4>1, <4>2, <4>3
    <3> QED
      BY <3>2, <3>3
  <2>3. Restore(name, offered) = name
    BY <1>3, <2>2
  <2> QED
    BY <1>4, <2>1, <2>3 DEF name
<1> QED
  BY <1>5, <1>6

LEMMA OfferedAre ==
    ASSUME IdsFit
    PROVE  /\ IsFiniteSet(Offered)
           /\ \A tool \in Offered : tool \in OwnTools \/ \E v \in Configured : tool = Wire(v, Tool[v])
<1> DEFINE own == GuestTools \cup BotTools \cup {SecretRequest} \cup (IF AnyExist THEN SkillTools ELSE {})
<1> DEFINE remotes == {Wire(v, Tool[v]) : v \in hub.heard}
<1>1. Offered = own \cup remotes
  BY DEF Offered
<1>2. own \subseteq OwnTools
  BY DEF OwnTools
<1>3. IsFiniteSet(own)
  BY <1>2, NamesAssumption, FS_Subset
<1>4. IsFiniteSet(remotes)
  <2>1. IsFiniteSet(hub.heard)
    <3>1. hub.heard \subseteq DOMAIN Wants
      BY DEF IdsFit
    <3> QED
      BY <3>1, NamesAssumption, FS_Subset
  <2> DEFINE f == [v \in hub.heard |-> Wire(v, Tool[v])]
  <2>2. f \in [hub.heard -> remotes] /\ \A tool \in remotes : \E v \in hub.heard : f[v] = tool
    OBVIOUS
  <2> HIDE DEF f, remotes
  <2>3. f \in Surjection(hub.heard, remotes)
    BY <2>2 DEF Surjection
  <2> QED
    BY <2>1, <2>3, FS_Surjection
<1> HIDE DEF own
<1>5. IsFiniteSet(own \cup remotes)
  BY <1>3, <1>4, FS_Union
<1>6. hub.heard \subseteq Configured
  BY DEF IdsFit
<1>7. \A tool \in remotes : \E v \in Configured : tool = Wire(v, Tool[v])
  BY <1>6
<1> HIDE DEF remotes
<1> QED
  BY <1>1, <1>2, <1>5, <1>7

\* A call begins under a name that is its tool's, or that splits off its owner.
LEMMA BegunRight ==
    ASSUME NEW c \in Calls, IdsFit, Ask[c].direct \/ Ask[c].tool \in Offered
    PROVE  NamedFor(c, IF Ask[c].direct THEN Ask[c].tool ELSE Restore(Sanitize(Ask[c].tool), Offered))
<1> DEFINE tool == Ask[c].tool
<1> DEFINE name == IF Ask[c].direct THEN tool ELSE Restore(Sanitize(tool), Offered)
<1>1. \/ name = tool
      \/ /\ name = Sanitize(tool)
         /\ \/ Sanitize(tool) \in Offered
            \/ \E other \in Offered : other # tool /\ Sanitize(other) = Sanitize(tool)
  <2>1. CASE Ask[c].direct
    BY <2>1
  <2>2. CASE ~Ask[c].direct
    BY <2>2, OfferedAre, RestoredIs
  <2> QED
    BY <2>1, <2>2
<1>2. CASE Ask[c].owner \in Sides
  <2>1. tool \in OwnTools /\ Ask[c].owner \notin Configured
    BY <1>2, CallIs, NamesAssumption DEF IdsFit
  <2>2. tool \in Seq(Symbols)
    BY <2>1, OwnToolIs
  <2>3. \A v \in Configured : Leads(v, Sanitize(tool)) => v = <<"skill">> /\ tool \in SkillTools
    BY <2>1, NotBehind DEF IdsFit
  <2>4. tool \in SkillTools => Ask[c].owner = SkillSide
    <3>1. tool \in Serving(Ask[c].owner) /\ (tool \in SkillTools => tool \in Serving(SkillSide)) /\ SkillSide \in Sides
      BY <1>2, CallIs, ServingIs, NamesAssumption DEF Sides
    <3> QED
      BY <1>2, <3>1, NamesAssumption
  <2>5. ASSUME Sanitize(tool) \in Offered \/ (\E other \in Offered : other # tool /\ Sanitize(other) = Sanitize(tool)),
               name = Sanitize(tool), name # tool
        PROVE  (\E v \in Configured : Leads(v, Sanitize(tool))) /\ Sanitize(tool) \in Seq(Symbols)
    <3>1. CASE Sanitize(tool) \in Offered
      <4>1. ASSUME Sanitize(tool) \in OwnTools PROVE FALSE
        BY <2>1, <4>1, NotBehind
      <4>2. PICK v \in Configured : Sanitize(tool) = Wire(v, Tool[v])
        BY <3>1, <4>1, OfferedAre
      <4>3. v \in Seq(Symbols) /\ Tool[v] \in Seq(Symbols)
        BY IdIs DEF IdsFit
      <4> QED
        BY <4>2, <4>3, WireLeads
    <3>2. CASE \E other \in Offered : other # tool /\ Sanitize(other) = Sanitize(tool)
      <4>1. PICK other \in Offered : other # tool /\ Sanitize(other) = Sanitize(tool)
        BY <3>2
      <4>2. other \notin OwnTools
        BY <2>1, <4>1, NamesAssumption
      <4>3. PICK v \in Configured : other = Wire(v, Tool[v])
        BY <4>1, <4>2, OfferedAre
      <4>4. v \in Seq(Symbols) /\ Tool[v] \in Seq(Symbols) /\ Dot \notin ToSet(v)
        BY IdIs DEF IdsFit
      <4>5. other \in Seq(Symbols) /\ Leads(v, other)
        BY <4>3, <4>4, WireLeads
      <4>6. Sanitize(other) \in Seq(Symbols) /\ Leads(v, Sanitize(other))
        BY <4>4, <4>5, EscapeLeads
      <4> QED
        BY <4>1, <4>6
    <3> QED
      BY <2>5, <3>1, <3>2
  <2>6. name \in Seq(Symbols)
    BY <1>1, <2>2, <2>5
  <2>7. ASSUME Ask[c].owner = SkillSide => ~SkillsTaken, name # tool
        PROVE  FALSE
    <3>1. PICK v \in Configured : Leads(v, Sanitize(tool))
      BY <1>1, <2>5, <2>7
    <3>2. v = <<"skill">> /\ tool \in SkillTools
      BY <2>3, <3>1
    <3> QED
      BY <2>4, <2>7, <3>2 DEF SkillsTaken
  <2> HIDE DEF name
  <2> QED
    BY <2>1, <2>6, <2>7 DEF NamedFor, name
<1>3. CASE Ask[c].owner \in DOMAIN Wants
  <2>1. Ask[c].owner \notin Sides /\ tool \in Seq(Symbols) /\ IsPrefix(Wire(Ask[c].owner, <<>>), tool)
    BY <1>3, CallIs, NamesAssumption
  <2>2. ASSUME Ask[c].owner \in Configured
        PROVE  name \in Seq(Symbols) /\ Leads(Ask[c].owner, name)
    <3>1. Ask[c].owner \in Seq(Symbols) /\ Dot \notin ToSet(Ask[c].owner)
      BY <2>2, IdIs DEF IdsFit
    <3>2. Leads(Ask[c].owner, tool)
      BY <2>1, <3>1, PrefixLeads
    <3>3. Sanitize(tool) \in Seq(Symbols) /\ Leads(Ask[c].owner, Sanitize(tool))
      BY <2>1, <3>1, <3>2, EscapeLeads
    <3> QED
      BY <1>1, <2>1, <3>2, <3>3
  <2>3. name \in Seq(Symbols)
    <3>1. Leads(Ask[c].owner, tool) /\ Ask[c].owner \in Seq(Symbols)
      BY <1>3, <2>1, NamesAssumption, InSymbols, PrefixLeads
    <3>2. tool # <<>>
      <4>1. Len(Ask[c].owner) \in Nat /\ Len(tool) >= Len(Ask[c].owner) + 2
        BY <3>1 DEF Leads
      <4>2. Len(<<>>) = 0
        OBVIOUS
      <4> QED
        BY <4>1, <4>2
    <3> QED
      BY <1>1, <2>1, <3>2, EscapeIsName
  <2> HIDE DEF name
  <2> QED
    BY <2>1, <2>2, <2>3 DEF NamedFor, name
<1> QED
  BY <1>2, <1>3, CallIs

-----------------------------------------------------------------------------
(***************************************************************************)
(* Where the calls go.                                                       *)
(***************************************************************************)

TypesFit ==
    /\ hub.pc \in {"down", "probes", "serves", "failed"} /\ clashed \subseteq Files
    /\ \A e \in mix.edits : edit[e].pc \in {"idle", "probe", "check", "open", "fill", "rename", "ended"}
    /\ \A k \in Skills : shelf[k] \in {"none", "half", "whole"}

\* What may ever be read back as the connectors, or was by an editor: the ids in it that may be prefixes are known.
Listed(map) == \A v \in DOMAIN map : ValidId(v) => v \in DOMAIN Wants
ShopsFit ==
    /\ \A i \in Inodes : MadeFor(i) = "connectors" /\ data[i] # Torn => Listed(data[i])
    /\ \A e \in mix.edits : File(e) = "connectors" => Listed(edit[e].map)

UnderwayNow(c) == call[c].pc \in {"hooks", "blocked", "asked", "stores"}

\* Whom a call may go to in this life of the daemon.
Rightly(c, to, ready) ==
    LET owner == Ask[c].owner
    IN /\ owner \in Sides /\ (owner = SkillSide => ~SkillsTaken) =>
             to = owner \/ (owner = SkillSide /\ to = GuestSide /\ ~ready)
       /\ owner \in Configured /\ ~Trails(owner) => to = owner

\* While a call may expect what it needs, that is there, and is what it was sent with.
Goes(c) ==
    /\ call[c].pc # "idle" /\ call[c].boot = hub.boot => NamedFor(c, call[c].name)
    /\ UnderwayNow(c) => call[c].boot = hub.boot /\ (call[c].ready => Ready(c))
    /\ call[c].to # None /\ call[c].boot = hub.boot => Rightly(c, call[c].to, call[c].ready)
    /\ call[c].pc = "asked" /\ call[c].ready =>
          call[c].to = Ask[c].owner /\ call[c].to \in Configured /\ call[c].header = Header(call[c].to)
    /\ call[c].pc = "stores" => ~call[c].ready
    /\ call[c].pc = "ended" /\ call[c].ready => call[c].end \in WellEnded(c)

GoesInv == TypesFit /\ IdsFit /\ ShopsFit /\ \A c \in mix.calls : Goes(c)

LEMMA GoesInit == Init => GoesInv
<1> SUFFICES ASSUME Init PROVE GoesInv
  OBVIOUS
<1>1. mix \in Mixes
  BY DEF Init
<1>2. TypesFit
  BY <1>1, DaemonAssumption DEF Init, TypesFit, Still, Skills
<1>3. DOMAIN NoMap = {}
  BY DEF NoMap
<1>4. IdsFit
  BY <1>3 DEF Init, IdsFit, Configured
<1>5. ShopsFit
  <2>1. \A e \in mix.edits : edit[e].map = NoMap
    BY DEF Init, Still
  <2>2. mix.start["connectors"] # Torn => Listed(mix.start["connectors"])
    BY <1>1, NamesAssumption DEF Listed
  <2>3. ASSUME NEW i \in Inodes, MadeFor(i) = "connectors", data[i] # Torn PROVE Listed(data[i])
    <3>1. i \in Files
      BY <2>3 DEF Init, Inodes
    <3>2. i = "connectors" /\ data[i] = mix.start["connectors"]
      BY <2>3, <3>1 DEF Init, MadeFor
    <3> QED
      BY <2>2, <2>3, <3>2
  <2> QED
    BY <1>3, <2>1, <2>3 DEF ShopsFit, Listed
<1>6. ASSUME NEW c \in mix.calls PROVE Goes(c)
  BY DEF Init, Quiet, Goes, UnderwayNow
<1> QED
  BY <1>2, <1>4, <1>5, <1>6 DEF GoesInv

\* What the calls expect is there as it was.
SameWorld ==
    /\ hub'.ids = hub.ids /\ hub'.boot = hub.boot /\ remote' = remote /\ shelf' = shelf
    /\ Read("secrets")' = Read("secrets")

LEMMA WorldSame ==
    ASSUME SameWorld
    PROVE  /\ Configured' = Configured /\ SkillsTaken' = SkillsTaken /\ AnyExist' = AnyExist
           /\ \A v : Header(v)' = Header(v)
           /\ \A c : Ready(c)' = Ready(c)
           /\ \A c, name : NamedFor(c, name)' = NamedFor(c, name)
           /\ \A c, to, ready : Rightly(c, to, ready)' = Rightly(c, to, ready)
<1>1. /\ hub'.ids = hub.ids /\ remote' = remote /\ shelf' = shelf /\ Read("secrets")' = Read("secrets")
      /\ Configured' = Configured /\ SkillsTaken' = SkillsTaken /\ AnyExist' = AnyExist /\ Skills' = Skills
  BY DEF SameWorld, Configured, SkillsTaken, AnyExist, Skills
<1>2. \A v : Header(v)' = Header(v)
  BY <1>1 DEF Header, Holds
<1>3. \A c : Ready(c)' = Ready(c)
  BY <1>1, <1>2 DEF Ready, Takes, Trails
<1>4. \A c, name : NamedFor(c, name)' = NamedFor(c, name)
  BY <1>1 DEF NamedFor
<1>5. \A c, to, ready : Rightly(c, to, ready)' = Rightly(c, to, ready)
  BY <1>1 DEF Rightly, Trails
<1> QED
  BY <1>1, <1>2, <1>3, <1>4, <1>5

LEMMA GoesOnSame ==
    ASSUME SameWorld, NEW c, Goes(c), call'[c] = call[c]
    PROVE  Goes(c)'
<1>1. hub'.boot = hub.boot
  BY DEF SameWorld
<1>2. Rightly(c, call[c].to, call[c].ready) => Rightly(c, call[c].to, call[c].ready)'
  BY WorldSame DEF Rightly
<1> QED
  BY <1>1, <1>2, WorldSame DEF Goes, UnderwayNow

\* A call that no longer expects anything.
LEMMA GoesOnShaken ==
    ASSUME CallsInv, NEW c \in mix.calls, Goes(c), hub' = hub, call'[c] = [call[c] EXCEPT !.ready = FALSE]
    PROVE  Goes(c)'
<1>1. /\ call'[c].pc = call[c].pc /\ call'[c].boot = call[c].boot /\ call'[c].name = call[c].name
      /\ call'[c].to = call[c].to /\ call'[c].ready = FALSE
  BY DEF CallsInv, CallFits, CallFields
<1>2. Configured' = Configured /\ SkillsTaken' = SkillsTaken
  BY DEF Configured, SkillsTaken
<1>3. NamedFor(c, call[c].name) => NamedFor(c, call[c].name)'
  BY <1>1, <1>2 DEF NamedFor
<1>4. Rightly(c, call[c].to, call[c].ready) => Rightly(c, call[c].to, call[c].ready)'
  BY <1>1, <1>2 DEF Rightly, Trails
<1> QED
  BY <1>1, <1>3, <1>4 DEF Goes, UnderwayNow

\* A call past its hooks goes to its owner; one that may expect what it needs finds it there.
LEMMA RoutedRightly ==
    ASSUME CallsInv, IdsFit, NEW c \in mix.calls, Goes(c), call[c].pc = "hooks"
    PROVE  /\ call[c].boot = hub.boot /\ Rightly(c, Server(call[c].name), call[c].ready)
           /\ call[c].ready =>
                 /\ Server(call[c].name) = Ask[c].owner
                 /\ \/ Ask[c].owner \in {GuestSide, BotSide} /\ call[c].name \in GuestTools \cup BotTools
                    \/ Ask[c].owner = SkillSide /\ (Ask[c].skill \in Skills => shelf[Ask[c].skill] = "whole")
                    \/ Ask[c].owner \in Configured /\ Takes(Ask[c].owner, Header(Ask[c].owner))
<1> DEFINE owner == Ask[c].owner
<1> DEFINE to == Server(call[c].name)
<1>1. c \in Calls /\ call[c].boot = hub.boot /\ NamedFor(c, call[c].name) /\ (call[c].ready => Ready(c))
  BY MixFacts DEF CallsInv, Goes, UnderwayNow
<1>2. /\ owner \in Sides /\ (owner = SkillSide => ~SkillsTaken) =>
            to = owner \/ (owner = SkillSide /\ to = GuestSide /\ ~AnyExist)
      /\ owner \in Configured /\ ~Trails(owner) => to = owner
  BY <1>1, ServedByOwner
<1>3. owner \in Sides => owner \notin Configured
  BY NamesAssumption DEF IdsFit
<1>4. Ready(c) /\ owner = SkillSide => AnyExist
  BY <1>3, SidesApart DEF Ready, Sides
<1>5. Rightly(c, to, call[c].ready)
  BY <1>1, <1>2, <1>4 DEF Rightly
<1>6. ASSUME call[c].ready
      PROVE  /\ to = owner
             /\ \/ owner \in {GuestSide, BotSide} /\ call[c].name \in GuestTools \cup BotTools
                \/ owner = SkillSide /\ (Ask[c].skill \in Skills => shelf[Ask[c].skill] = "whole")
                \/ owner \in Configured /\ Takes(owner, Header(owner))
  <2>1. Ready(c)
    BY <1>1, <1>6
  <2>2. CASE owner \in {GuestSide, BotSide}
    <3>1. owner \in Sides /\ owner # SkillSide
      BY <2>2, SidesApart DEF Sides
    <3>2. call[c].name = Ask[c].tool
      BY <1>1, <3>1 DEF NamedFor
    <3>3. Ask[c].tool \in Serving(owner)
      BY <1>1, <3>1, CallIs, NamesAssumption
    <3>4. call[c].name \in GuestTools \cup BotTools
      BY <2>2, <3>2, <3>3, ServingIs
    <3> QED
      BY <1>2, <2>2, <3>1, <3>4
  <2>3. CASE owner = SkillSide /\ ~SkillsTaken /\ AnyExist /\ (Ask[c].skill \in Skills => shelf[Ask[c].skill] = "whole")
    BY <1>2, <2>3 DEF Sides
  <2>4. CASE owner \in Configured /\ ~Trails(owner) /\ remote[owner] = "up" /\ Takes(owner, Header(owner))
    BY <1>2, <2>4
  <2> QED
    BY <2>1, <2>2, <2>3, <2>4 DEF Ready
<1> QED
  BY <1>1, <1>5, <1>6

\* A call that ends where it is.
LEMMA EndsGo ==
    ASSUME CallsInv, SameWorld, NEW c \in mix.calls, Goes(c), NEW how, Ends(c, how), call[c].pc \in {"hooks", "asked", "stores"},
           call[c].ready => how \in WellEnded(c)
    PROVE  Goes(c)'
<1>1. DOMAIN call = mix.calls /\ DOMAIN call[c] = CallFields /\ hub'.boot = hub.boot
  BY DEF CallsInv, CallFits, SameWorld
<1>2. call' = [call EXCEPT ![c].pc = "ended", ![c].end = how]
  BY DEF Ends, Ended
<1>3. /\ call'[c].name = call[c].name /\ call'[c].boot = call[c].boot /\ call'[c].to = call[c].to /\ call'[c].ready = call[c].ready
      /\ call'[c].pc = "ended" /\ call'[c].end = how
  BY <1>1, <1>2 DEF CallFields
<1>4. NamedFor(c, call[c].name) => NamedFor(c, call[c].name)'
  BY <1>3, WorldSame DEF NamedFor
<1>5. Rightly(c, call[c].to, call[c].ready) => Rightly(c, call[c].to, call[c].ready)'
  BY <1>3, WorldSame DEF Rightly
<1> QED
  BY <1>1, <1>3, <1>4, <1>5 DEF Goes, UnderwayNow

\* A call that is answered by whom it goes to.
LEMMA AnsweredGoes ==
    ASSUME CallsInv, SameWorld, NEW c \in mix.calls, Goes(c), NEW how, NEW to, Answered(c, to, how), call[c].pc = "hooks",
           Rightly(c, to, call[c].ready), call[c].ready => how \in WellEnded(c)
    PROVE  Goes(c)'
<1>1. DOMAIN call = mix.calls /\ DOMAIN call[c] = CallFields /\ hub'.boot = hub.boot
  BY DEF CallsInv, CallFits, SameWorld
<1>2. call' = [[call EXCEPT ![c].pc = "ended", ![c].end = how] EXCEPT ![c].to = to]
  BY DEF Answered, Ended
<1>3. /\ call'[c].name = call[c].name /\ call'[c].boot = call[c].boot /\ call'[c].to = to /\ call'[c].ready = call[c].ready
      /\ call'[c].pc = "ended" /\ call'[c].end = how
  BY <1>1, <1>2 DEF CallFields
<1>4. NamedFor(c, call[c].name) => NamedFor(c, call[c].name)'
  BY <1>3, WorldSame DEF NamedFor
<1>5. Rightly(c, call[c].to, call[c].ready)'
  BY <1>3, WorldSame DEF Rightly
<1> QED
  BY <1>1, <1>3, <1>4, <1>5 DEF Goes, UnderwayNow

LEMMA SameCallGoes ==
    ASSUME SameWorld, NEW c, Goes(c), call[c].pc = "hooks", call'[c].pc \in {"hooks", "blocked"}, call'[c].boot = call[c].boot,
           call'[c].name = call[c].name, call'[c].to = call[c].to, call'[c].ready = call[c].ready
    PROVE  Goes(c)'
<1>1. hub'.boot = hub.boot
  BY DEF SameWorld
<1>2. Rightly(c, call[c].to, call[c].ready) => Rightly(c, call[c].to, call[c].ready)'
  BY WorldSame DEF Rightly
<1> QED
  BY <1>1, <1>2, WorldSame DEF Goes, UnderwayNow

LEMMA BeginGoes ==
    ASSUME CallsInv, IdsFit, SameWorld, NEW c \in mix.calls, Begin(c)
    PROVE  Goes(c)'
<1>0. PICK name : name = IF Ask[c].direct THEN Ask[c].tool ELSE Restore(Sanitize(Ask[c].tool), Offered)
  OBVIOUS
<1>1. /\ DOMAIN call = mix.calls /\ DOMAIN call[c] = CallFields /\ hub'.boot = hub.boot /\ c \in Calls
      /\ call[c].pc = "idle" /\ call[c].to = None
  BY MixFacts DEF CallsInv, CallFits, SameWorld, Begin
<1>2. NamedFor(c, name)
  BY <1>0, <1>1, BegunRight DEF Begin
<1>3. call'[c] = [call[c] EXCEPT !.pc = "hooks", !.boot = hub.boot, !.ready = Ready(c), !.name = name]
  BY <1>0, <1>1 DEF Begin
<1>4. /\ call'[c].name = name /\ call'[c].boot = hub.boot /\ call'[c].to = None /\ call'[c].ready = Ready(c)
      /\ call'[c].pc = "hooks"
  BY <1>1, <1>3 DEF CallFields
<1>5. NamedFor(c, name)' /\ Ready(c)' = Ready(c)
  BY <1>2, WorldSame
<1>6. NamedFor(c, call[c].name)'
  BY <1>4, <1>5 DEF NamedFor
<1> QED
  BY <1>1, <1>4, <1>5, <1>6 DEF Goes, UnderwayNow

LEMMA RouteGoes ==
    ASSUME CallsInv, IdsFit, SameWorld, NEW c \in mix.calls, Goes(c), Route(c)
    PROVE  Goes(c)'
<1> DEFINE owner == Ask[c].owner
<1> DEFINE to == Server(call[c].name)
<1>1. /\ DOMAIN call = mix.calls /\ DOMAIN call[c] = CallFields /\ hub'.boot = hub.boot /\ call[c].pc = "hooks"
      /\ NamedFor(c, call[c].name)
  BY DEF CallsInv, CallFits, SameWorld, Route, Goes, UnderwayNow
<1>2. /\ call[c].boot = hub.boot /\ Rightly(c, to, call[c].ready)
      /\ call[c].ready =>
           /\ to = owner
           /\ \/ owner \in {GuestSide, BotSide} /\ call[c].name \in GuestTools \cup BotTools
              \/ owner = SkillSide /\ (Ask[c].skill \in Skills => shelf[Ask[c].skill] = "whole")
              \/ owner \in Configured /\ Takes(owner, Header(owner))
  BY <1>1, RoutedRightly
<1>3. \A v \in Configured : v \notin Sides
  BY NamesAssumption DEF IdsFit
<1>4. call[c].ready => Ready(c)
  BY <1>1 DEF Goes, UnderwayNow
<1>9. "ok" \in WellEnded(c)
  BY DEF WellEnded
<1> HIDE DEF to
<1>5. CASE Elsewhere(c)
  <2>1. /\ to \in {BotSide, GuestSide}
        /\ \/ Answered(c, to, IF call[c].name \in BotTools \cup GuestTools THEN "ok" ELSE "failed")
           \/ to = GuestSide /\ Ends(c, "unrouted")
    BY <1>5 DEF Elsewhere, to
  <2>2. call[c].ready => call[c].name \in BotTools \cup GuestTools
    BY <1>2, <1>3, <2>1, SidesApart DEF Sides
  <2>3. CASE Answered(c, to, IF call[c].name \in BotTools \cup GuestTools THEN "ok" ELSE "failed")
    BY <1>1, <1>2, <1>9, <2>2, <2>3, AnsweredGoes
  <2>4. CASE to = GuestSide /\ Ends(c, "unrouted")
    <3>1. call[c].ready => "unrouted" \in WellEnded(c)
      BY <1>2, <2>4 DEF WellEnded
    <3> QED
      BY <1>1, <2>4, <3>1, EndsGo
  <2> QED
    BY <2>1, <2>3, <2>4
<1>6. CASE Reads(c)
  <2>1. to = SkillSide /\ Answered(c, SkillSide, IF Ask[c].skill \in Skills => shelf[Ask[c].skill] = "whole" THEN "ok" ELSE "failed")
    BY <1>6 DEF Reads, to
  <2>2. call[c].ready => (Ask[c].skill \in Skills => shelf[Ask[c].skill] = "whole")
    BY <1>2, <1>3, <2>1, SidesApart DEF Sides
  <2> QED
    BY <1>1, <1>2, <1>9, <2>1, <2>2, AnsweredGoes
<1>7. CASE Sends(c)
  <2>1. to \in Configured
    BY <1>7 DEF Sends, to
  <2>2. call[c].ready => to = owner /\ Header(to) # "unresolved"
    BY <1>2, <1>3, <2>1 DEF Sides, Takes
  <2>3. CASE Header(to) = "unresolved"
    <3>1. Answered(c, to, "failed")
      BY <1>7, <2>3 DEF Sends, to
    <3> QED
      BY <1>1, <1>2, <2>2, <2>3, <3>1, AnsweredGoes
  <2>4. CASE Header(to) # "unresolved"
    <3>1. call' = [call EXCEPT ![c].pc = "asked", ![c].to = to, ![c].header = Header(to)]
      BY <1>7, <2>4 DEF Sends, to
    <3>2. call'[c] = [call[c] EXCEPT !.pc = "asked", !.to = to, !.header = Header(to)]
      BY <1>1, <3>1
    <3>3. /\ call'[c].name = call[c].name /\ call'[c].boot = call[c].boot /\ call'[c].to = to /\ call'[c].ready = call[c].ready
          /\ call'[c].pc = "asked" /\ call'[c].header = Header(to)
      BY <1>1, <3>2 DEF CallFields
    <3>4. NamedFor(c, call[c].name)'
      BY <1>1, <3>3, WorldSame DEF NamedFor
    <3>5. Rightly(c, call[c].to, call[c].ready)'
      BY <1>2, <3>3, WorldSame DEF Rightly
    <3>6. Header(call[c].to)' = Header(to) /\ Configured' = Configured /\ Ready(c)' = Ready(c)
      BY <3>3, WorldSame DEF Header, Holds
    <3> QED
      BY <1>1, <1>2, <1>4, <2>1, <2>2, <3>3, <3>4, <3>5, <3>6 DEF Goes, UnderwayNow
  <2> QED
    BY <2>3, <2>4
<1>8. CASE Supplies(c)
  <2>1. to = StoreSide /\ StoreSide \in Sides
    BY <1>8 DEF Supplies, to, Sides
  <2>2. ~call[c].ready
    BY <1>2, <1>3, <2>1, SidesApart
  <2>3. CASE Answered(c, StoreSide, "unstored")
    BY <1>1, <1>2, <2>1, <2>2, <2>3, AnsweredGoes
  <2>4. CASE call' = [call EXCEPT ![c].pc = "stores", ![c].to = StoreSide]
    <3>1. call'[c] = [call[c] EXCEPT !.pc = "stores", !.to = StoreSide]
      BY <1>1, <2>4
    <3>2. /\ call'[c].name = call[c].name /\ call'[c].boot = call[c].boot /\ call'[c].to = to /\ call'[c].ready = call[c].ready
          /\ call'[c].pc = "stores"
      BY <1>1, <2>1, <3>1 DEF CallFields
    <3>3. NamedFor(c, call[c].name)'
      BY <1>1, <3>2, WorldSame DEF NamedFor
    <3>4. Rightly(c, call[c].to, call[c].ready)'
      BY <1>2, <3>2, WorldSame DEF Rightly
    <3> QED
      BY <1>1, <1>2, <2>2, <3>2, <3>3, <3>4 DEF Goes, UnderwayNow
  <2> QED
    BY <1>8, <2>3, <2>4 DEF Supplies
<1> QED
  BY <1>5, <1>6, <1>7, <1>8 DEF Route

LEMMA ServesGoes ==
    ASSUME CallsInv, IdsFit, NEW c, Serves(c), \A d \in mix.calls : Goes(d)
    PROVE  \A d \in mix.calls : Goes(d)'
<1>1. c \in mix.calls /\ mix' = mix /\ hub' = hub /\ Handles(c) /\ DOMAIN call = mix.calls /\ DOMAIN call[c] = CallFields
  BY DEF Serves, CallsInv, CallFits
<1>2. SameWorld
  BY DEF Serves, homeVars, SameWorld, Read
<1>3. \A d \in mix.calls \ {c} : call'[d] = call[d]
  BY ServesKeeps DEF Progress
<1>4. Goes(c)'
  <2>1. CASE Begin(c)
    BY <1>1, <1>2, <2>1, BeginGoes
  <2>2. CASE AskHook(c)
    <3>1. PICK h, answer : \/ Ends(c, "refused")
                           \/ call' = [call EXCEPT ![c].pc = "blocked"]
                           \/ call' = [call EXCEPT ![c].heard = Append(call[c].heard, answer)]
      BY <2>2 DEF AskHook
    <3>2. call[c].pc = "hooks"
      BY <2>2 DEF AskHook
    <3>5. CASE call' = [call EXCEPT ![c].pc = "blocked"]
      <4>1. /\ call'[c].pc = "blocked" /\ call'[c].boot = call[c].boot /\ call'[c].name = call[c].name
            /\ call'[c].to = call[c].to /\ call'[c].ready = call[c].ready
        BY <1>1, <3>2, <3>5 DEF CallFields
      <4> QED
        BY <1>1, <1>2, <3>2, <4>1, SameCallGoes
    <3>3. CASE Ends(c, "refused")
      <4>1. "refused" \in WellEnded(c)
        BY DEF WellEnded
      <4> QED
        BY <1>1, <1>2, <3>2, <3>3, <4>1, EndsGo
    <3>4. CASE call' = [call EXCEPT ![c].heard = Append(call[c].heard, answer)]
      <4>1. /\ call'[c].pc = "hooks" /\ call'[c].boot = call[c].boot /\ call'[c].name = call[c].name
            /\ call'[c].to = call[c].to /\ call'[c].ready = call[c].ready
        BY <1>1, <3>2, <3>4 DEF CallFields
      <4> QED
        BY <1>1, <1>2, <3>2, <4>1, SameCallGoes
    <3> QED
      BY <3>1, <3>3, <3>4, <3>5
  <2>3. CASE Route(c)
    BY <1>1, <1>2, <2>3, RouteGoes
  <2>4. CASE Answer(c)
    <3> DEFINE to == call[c].to
    <3>1. call[c].pc = "asked" /\ Ends(c, IF remote[to] = "up" /\ Takes(to, call[c].header) THEN "ok" ELSE "failed")
      BY <2>4 DEF Answer
    <3>2. ASSUME call[c].ready PROVE remote[to] = "up" /\ Takes(to, call[c].header)
      <4>1. Goes(c)
        BY <1>1
      <4>2. to = Ask[c].owner /\ to \in Configured /\ call[c].header = Header(to) /\ Ready(c)
        BY <3>1, <3>2, <4>1 DEF Goes, UnderwayNow
      <4>3. to \notin Sides
        BY <4>2, NamesAssumption DEF IdsFit
      <4> QED
        BY <4>2, <4>3 DEF Ready, Sides
    <3>3. PICK how : Ends(c, how) /\ how = IF remote[to] = "up" /\ Takes(to, call[c].header) THEN "ok" ELSE "failed"
      BY <3>1
    <3>4. call[c].ready => how \in WellEnded(c)
      BY <3>2, <3>3 DEF WellEnded
    <3> HIDE DEF to
    <3> QED
      BY <1>1, <1>2, <3>1, <3>3, <3>4, EndsGo
  <2>5. CASE Stored(c)
    <3>1. call[c].pc = "stores" /\ Goes(c) /\ \E how : Ends(c, how)
      BY <1>1, <2>5 DEF Stored
    <3>2. ~call[c].ready
      BY <3>1 DEF Goes
    <3> QED
      BY <1>1, <1>2, <3>1, <3>2, EndsGo
  <2> QED
    BY <1>1, <2>1, <2>2, <2>3, <2>4, <2>5 DEF Handles
<1>5. ASSUME NEW d \in mix.calls, d # c PROVE Goes(d)'
  BY <1>2, <1>3, <1>5, GoesOnSame
<1> QED
  BY <1>4, <1>5

\* What is opened is not what is read.
LEMMA OpenedElsewhere ==
    ASSUME FilesInv, NEW e \in mix.edits, File(e) \in Files, edit[e].pc = "open"
    PROVE  /\ Temporary(e) \in Inodes /\ MadeFor(Temporary(e)) = File(e)
           /\ \A f \in Files : at[f] # Temporary(e)
<1>1. EditTypes /\ Places
  BY DEF FilesInv
<1>2. e \notin Files /\ e # None
  BY <1>1, MixFacts, FilesAre DEF EditTypes, Inodes
<1>3. CASE temp[File(e)] = None
  <2>1. Temporary(e) = e /\ e \in Inodes /\ MadeFor(e) = File(e)
    BY <1>2, <1>3 DEF Temporary, Inodes, MadeFor
  <2>2. \A f \in Files : at[f] # e
    BY <1>1 DEF Places, Inode, Made
  <2> QED
    BY <2>1, <2>2
<1>4. CASE temp[File(e)] # None
  <2>1. Temporary(e) = temp[File(e)]
    BY <1>4 DEF Temporary
  <2>2. Inode(File(e), temp[File(e)]) /\ temp[File(e)] # at[File(e)]
    BY <1>1, <1>4 DEF Places
  <2>3. \A f \in Files : MadeFor(at[f]) = f
    BY <1>1 DEF Places, Inode
  <2> QED
    BY <2>1, <2>2, <2>3 DEF Inode
<1> QED
  BY <1>3, <1>4

\* An editor's step leaves what a call needs as it was, or the calls expect nothing of it any more.
LEMMA EditWorld ==
    ASSUME FilesInv, NEW e, EditStep(e)
    PROVE  mix' = mix /\ hub' = hub /\ ((SameWorld /\ call' = call) \/ call' = Shaken)
<1>1. e \in mix.edits /\ mix' = mix /\ hub' = hub /\ remote' = remote
  BY DEF EditStep
<1>2. CASE at' = at /\ data' = data /\ shelf' = shelf /\ call' = call
  BY <1>1, <1>2 DEF SameWorld, Read
<1>3. CASE Opened(e) /\ File(e) \in Files
  <2>1. /\ at' = at /\ shelf' = shelf /\ call' = call /\ edit[e].pc = "open"
        /\ data' = [data EXCEPT ![Temporary(e)] = Torn]
    BY <1>3 DEF Opened
  <2>2. at["secrets"] # Temporary(e)
    BY <1>1, <1>3, <2>1, OpenedElsewhere DEF Files
  <2>3. at["secrets"] \in DOMAIN data
    BY DEF FilesInv, EditTypes, Places, Inode, Files
  <2>4. Read("secrets")' = Read("secrets")
    BY <2>1, <2>2, <2>3 DEF Read
  <2> QED
    BY <1>1, <2>1, <2>4 DEF SameWorld
<1>4. CASE call' = Shaken
  BY <1>1, <1>4
<1>5. Loaded(e) \/ Verified(e) \/ Checked(e) => at' = at /\ data' = data /\ shelf' = shelf /\ call' = call
  BY DEF Loaded, Verified, Checked, homeVars
<1>6. Filled(e) \/ SkillEdited(e) => call' = Shaken
  BY DEF Filled, SkillEdited
<1>7. Renamed(e) => call' = Shaken \/ (at' = at /\ data' = data /\ shelf' = shelf /\ call' = call)
  BY DEF Renamed, homeVars
<1> QED
  BY <1>2, <1>3, <1>4, <1>5, <1>6, <1>7 DEF EditStep

LEMMA CallsGoOn ==
    ASSUME CallsInv, mix' = mix, hub' = hub, (SameWorld /\ call' = call) \/ call' = Shaken, \A c \in mix.calls : Goes(c)
    PROVE  \A c \in mix'.calls : Goes(c)'
<1>1. CASE SameWorld /\ call' = call
  BY <1>1, GoesOnSame
<1>2. CASE call' = Shaken
  <2>1. \A c \in mix.calls : call'[c] = [call[c] EXCEPT !.ready = FALSE]
    BY <1>2 DEF Shaken
  <2> QED
    BY <2>1, GoesOnShaken
<1> QED
  BY <1>1, <1>2

\* What an editor does in memory: it goes on, or is done with it.
Step(e, pc, map) ==
    /\ DOMAIN edit' = DOMAIN edit /\ \A o \in DOMAIN edit \ {e} : edit'[o] = edit[o]
    /\ edit'[e].pc = pc /\ edit'[e].map = map

Stages == {"idle", "probe", "check", "open", "fill", "rename", "ended"}

LEMMA StepTypes ==
    ASSUME TypesFit, ShopsFit, EditTypes, NEW e \in mix.edits, mix' = mix, hub' = hub, clashed' \subseteq Files, data' = data,
           NEW pc \in Stages, NEW map, Step(e, pc, map), File(e) = "connectors" => Listed(map),
           \A k \in DOMAIN shelf' : shelf'[k] \in {"none", "half", "whole"}
    PROVE  TypesFit' /\ ShopsFit'
<1>1. DOMAIN edit = mix.edits /\ Inodes' = Inodes
  BY DEF EditTypes, Inodes, Files
<1>2. TypesFit'
  BY <1>1 DEF TypesFit, Step, Stages, Skills, Files
<1>3. ShopsFit'
  BY <1>1 DEF ShopsFit, Step, MadeFor, File, Files
<1> QED
  BY <1>2, <1>3

LEMMA EditedStep ==
    ASSUME EditTypes, NEW e \in mix.edits
    PROVE  /\ \A pc : Edited(e, pc) => Step(e, pc, edit[e].map)
           /\ \A told : Finished(e, told) => Step(e, "ended", edit[e].map)
<1>1. DOMAIN edit = mix.edits /\ DOMAIN edit[e] = {"pc", "map", "ino", "told"}
  BY DEF EditTypes
<1>2. ASSUME NEW pc, Edited(e, pc) PROVE Step(e, pc, edit[e].map)
  BY <1>1, <1>2 DEF Edited, Step
<1>3. ASSUME NEW told, Finished(e, told) PROVE Step(e, "ended", edit[e].map)
  BY <1>1, <1>3 DEF Finished, Step
<1> QED
  BY <1>2, <1>3

LEMMA EditTypesKept ==
    ASSUME FilesInv, TypesFit, ShopsFit, NEW e, EditStep(e)
    PROVE  TypesFit' /\ ShopsFit'
<1>1. e \in mix.edits /\ mix' = mix /\ hub' = hub /\ EditTypes /\ Places /\ mix \in Mixes
  BY DEF EditStep, FilesInv, EditTypes
<1>2. /\ DOMAIN edit = mix.edits /\ DOMAIN edit[e] = {"pc", "map", "ino", "told"} /\ DOMAIN data = Inodes /\ Inodes' = Inodes
      /\ e \in Edits
  BY <1>1, MixFacts DEF EditTypes, Inodes, Files
<1>3. /\ clashed \subseteq Files /\ (\A k \in DOMAIN shelf : shelf[k] \in {"none", "half", "whole"})
      /\ (File(e) = "connectors" => Listed(edit[e].map))
      /\ {"check", "open", "fill", "rename", "ended", "probe"} \subseteq Stages
  BY <1>1 DEF TypesFit, Skills, ShopsFit, Stages
<1>4. CASE Loaded(e)
  <2>1. data' = data /\ shelf' = shelf /\ clashed' \subseteq Files
    BY <1>3, <1>4 DEF Loaded
  <2>2. CASE Legal(e)
    <3> DEFINE to == IF Edit[e].verify THEN "probe" ELSE "check"
    <3>1. edit' = [edit EXCEPT ![e].pc = to, ![e].map = Read(File(e))]
      BY <1>4, <2>2 DEF Loaded
    <3>1a. to \in Stages
      BY <1>3
    <3> HIDE DEF to
    <3>2. Step(e, to, Read(File(e)))
      BY <1>1, <1>2, <3>1 DEF Step
    <3>3. ASSUME File(e) = "connectors" PROVE Listed(Read(File(e)))
      <4>1. at[File(e)] \in Inodes /\ MadeFor(at[File(e)]) = "connectors" /\ data[at[File(e)]] # Torn
        BY <1>1, <2>2, <3>3 DEF Places, Inode, Files, Legal, Read
      <4> QED
        BY <4>1 DEF ShopsFit, Read
    <3> QED
      BY <1>1, <1>3, <2>1, <3>1a, <3>2, <3>3, StepTypes
  <2>3. CASE ~Legal(e)
    <3>1. Finished(e, "failed")
      BY <1>4, <2>3 DEF Loaded
    <3>2. Step(e, "ended", edit[e].map)
      BY <1>1, <3>1, EditedStep
    <3> QED
      BY <1>1, <1>3, <2>1, <3>2, StepTypes
  <2> QED
    BY <2>2, <2>3
<1>5. CASE Verified(e) \/ Checked(e)
  <2>1. data' = data /\ shelf' = shelf /\ clashed' = clashed
    BY <1>5 DEF Verified, Checked, homeVars
  <2>2. Edited(e, "check") \/ Edited(e, "open") \/ Finished(e, "failed")
    BY <1>5 DEF Verified, Checked
  <2>3. \E pc \in Stages : Step(e, pc, edit[e].map)
    BY <1>1, <1>3, <2>2, EditedStep
  <2> QED
    BY <1>1, <1>3, <2>1, <2>3, StepTypes
<1>6. CASE Opened(e) /\ File(e) \in Files
  <2>1. PICK i : i = Temporary(e)
    OBVIOUS
  <2>2. /\ data' = [data EXCEPT ![i] = Torn] /\ edit' = [edit EXCEPT ![e].pc = "fill", ![e].ino = i]
        /\ clashed' = clashed /\ shelf' = shelf
    BY <1>6, <2>1 DEF Opened
  <2>3. /\ DOMAIN edit' = mix.edits /\ (\A o \in mix.edits \ {e} : edit'[o] = edit[o])
        /\ edit'[e].pc = "fill" /\ edit'[e].map = edit[e].map
    BY <1>1, <1>2, <2>2
  <2>4. \A j \in Inodes : data'[j] = Torn \/ data'[j] = data[j]
    BY <1>2, <2>2
  <2>5. TypesFit'
    BY <1>1, <2>2, <2>3 DEF TypesFit, Skills, Files
  <2>6. ShopsFit'
    BY <1>1, <1>2, <2>3, <2>4 DEF ShopsFit, MadeFor, File, Files
  <2> QED
    BY <2>5, <2>6
<1>7. CASE Filled(e) /\ File(e) \in Files
  <2>1. PICK content : /\ content \in {Applied(e, edit[e].map), Torn}
                       /\ data' = [data EXCEPT ![edit[e].ino] = content]
    BY <1>7 DEF Filled
  <2>2. Edited(e, "rename") /\ clashed' = clashed /\ shelf' = shelf /\ edit[e].pc = "fill"
    BY <1>7 DEF Filled
  <2>3. Step(e, "rename", edit[e].map)
    BY <1>1, <2>2, EditedStep
  <2>4. Inode(File(e), edit[e].ino)
    BY <1>1, <1>7, <2>2 DEF Places
  <2>5. \A j \in Inodes : data'[j] = data[j] \/ (j = edit[e].ino /\ data'[j] \in {Applied(e, edit[e].map), Torn})
    BY <1>2, <2>1
  <2>6. ASSUME File(e) = "connectors" PROVE Listed(Applied(e, edit[e].map))
    <3>1. Named(e) \in DOMAIN Wants
      BY <1>2, <2>6, NamesAssumption DEF Named, File
    <3>2. DOMAIN Applied(e, edit[e].map) \subseteq DOMAIN edit[e].map \cup {Named(e)}
      BY DEF Applied
    <3> QED
      BY <1>3, <2>6, <3>1, <3>2 DEF Listed
  <2>7. ASSUME NEW j \in Inodes, MadeFor(j) = "connectors", data'[j] # Torn PROVE Listed(data'[j])
    <3>1. CASE data'[j] = data[j]
      BY <2>7, <3>1 DEF ShopsFit
    <3>2. CASE j = edit[e].ino /\ data'[j] \in {Applied(e, edit[e].map), Torn}
      <4>1. File(e) = "connectors" /\ data'[j] = Applied(e, edit[e].map)
        BY <2>4, <2>7, <3>2 DEF Inode
      <4> QED
        BY <2>6, <4>1
    <3> QED
      BY <2>5, <3>1, <3>2
  <2>8. TypesFit'
    BY <1>1, <1>2, <2>2, <2>3 DEF TypesFit, Skills, Files, Step
  <2>9. \A o \in mix.edits : File(o) = "connectors" => Listed(edit'[o].map)
    BY <1>1, <1>2, <2>3 DEF ShopsFit, Step
  <2> QED
    BY <1>1, <1>2, <2>7, <2>8, <2>9 DEF ShopsFit, MadeFor, File, Files, Listed
<1>8. CASE Renamed(e) /\ File(e) \in Files
  <2>1. data' = data /\ shelf' = shelf /\ clashed' = clashed /\ \E told : Finished(e, told)
    BY <1>8 DEF Renamed, homeVars
  <2>2. Step(e, "ended", edit[e].map)
    BY <1>1, <2>1, EditedStep
  <2> QED
    BY <1>1, <1>3, <2>1, <2>2, StepTypes
<1>9. CASE SkillEdited(e)
  <2>1. data' = data /\ clashed' = clashed
    BY <1>9 DEF SkillEdited
  <2>2. Edited(e, "fill") \/ \E told : Finished(e, told)
    BY <1>9 DEF SkillEdited
  <2>3. \/ shelf' = shelf
        \/ \E state \in {"none", "half", "whole"} : shelf' = [shelf EXCEPT ![Named(e)] = state]
    BY <1>9 DEF SkillEdited
  <2>4. \A k \in DOMAIN shelf' : shelf'[k] \in {"none", "half", "whole"}
    <3>1. CASE shelf' = shelf
      BY <1>3, <3>1
    <3>2. ASSUME NEW state \in {"none", "half", "whole"}, shelf' = [shelf EXCEPT ![Named(e)] = state]
          PROVE  \A k \in DOMAIN shelf' : shelf'[k] \in {"none", "half", "whole"}
      BY <1>3, <3>2
    <3> QED
      BY <2>3, <3>1, <3>2
  <2>5. \E pc \in Stages : Step(e, pc, edit[e].map)
    BY <1>1, <1>3, <2>2, EditedStep
  <2> QED
    BY <1>1, <1>3, <2>1, <2>4, <2>5, StepTypes
<1> QED
  BY <1>4, <1>5, <1>6, <1>7, <1>8, <1>9 DEF EditStep

LEMMA BootsGo ==
    ASSUME CallsInv, GoesInv, mix' = mix, edit' = edit, data' = data, clashed' = clashed, shelf' = shelf, call' = call,
           FilesInv, Load \/ Probe \/ Opens
    PROVE  GoesInv'
<1>1. TypesFit /\ IdsFit /\ ShopsFit /\ (\A c \in mix.calls : Goes(c)) /\ DOMAIN hub = {"pc", "boot", "ids", "heard", "waits"}
  BY DEF GoesInv, CallsInv
<1>2. \A c \in mix.calls : call[c].pc \in {"idle", "ended"} /\ call[c].boot < hub'.boot /\ hub'.boot \in Nat /\ call[c].boot \in Nat
  BY BootsKeeps DEF CallsInv, Lives, CallFits
<1>3. \A c \in mix.calls : Goes(c)'
  BY <1>1, <1>2 DEF Goes, UnderwayNow
<1>4. hub'.pc \in {"down", "probes", "serves", "failed"}
  BY <1>1 DEF Load, Probe, Opens, TypesFit
<1>5. TypesFit'
  BY <1>1, <1>4 DEF TypesFit, Skills, Files
<1>6. ShopsFit'
  BY <1>1 DEF ShopsFit, MadeFor, File, Files, Inodes, Listed
<1>7. IdsFit'
  <2>1. CASE Load
    <3>1. CASE Loads
      <4>1. hub'.ids = Read("connectors") /\ hub'.waits = DOMAIN Read("connectors") /\ hub'.heard = {}
        BY <1>1, <2>1, <3>1 DEF Load
      <4>2. at["connectors"] \in Inodes /\ MadeFor(at["connectors"]) = "connectors"
        BY DEF FilesInv, Places, Inode, Files
      <4>3. Listed(Read("connectors"))
        BY <1>1, <3>1, <4>2 DEF ShopsFit, Loads, Read
      <4> QED
        BY <3>1, <4>1, <4>3 DEF IdsFit, Configured, Loads, Listed
    <3>2. CASE ~Loads
      <4>1. hub'.ids = hub.ids /\ hub'.waits = hub.waits /\ hub'.heard = hub.heard
        BY <1>1, <2>1, <3>2 DEF Load
      <4> QED
        BY <1>1, <4>1 DEF IdsFit, Configured
    <3> QED
      BY <3>1, <3>2
  <2>2. CASE Probe
    <3>1. PICK v \in hub.waits : hub' = [hub EXCEPT !.waits = @ \ {v},
                              !.heard = IF remote[v] = "up" /\ Takes(v, Header(v)) THEN @ \cup {v} ELSE @]
      BY <2>2 DEF Probe
    <3>2. hub'.ids = hub.ids /\ hub'.waits \subseteq hub.waits /\ hub'.heard \subseteq hub.heard \cup {v}
      BY <1>1, <3>1
    <3> QED
      BY <1>1, <3>2 DEF IdsFit, Configured
  <2>3. CASE Opens
    <3>1. hub'.ids = hub.ids /\ hub'.waits = hub.waits /\ hub'.heard = hub.heard
      BY <1>1, <2>3 DEF Opens
    <3> QED
      BY <1>1, <3>1 DEF IdsFit, Configured
  <2> QED
    BY <2>1, <2>2, <2>3
<1> QED
  BY <1>3, <1>5, <1>6, <1>7 DEF GoesInv

LEMMA CrashGoes ==
    ASSUME CallsInv, GoesInv, EditTypes, Crash
    PROVE  GoesInv'
<1>1. TypesFit /\ IdsFit /\ ShopsFit /\ (\A c \in mix.calls : Goes(c)) /\ DOMAIN hub = {"pc", "boot", "ids", "heard", "waits"}
  BY DEF GoesInv, CallsInv
<1>2. /\ mix' = mix /\ UNCHANGED homeVars /\ remote' = remote
      /\ edit' = [e \in mix.edits |-> IF Active(e) /\ Edit[e].hub THEN [edit[e] EXCEPT !.pc = "ended"] ELSE edit[e]]
      /\ hub' = [hub EXCEPT !.pc = "down", !.waits = {}]
  BY DEF Crash
<1>3. hub'.pc = "down" /\ hub'.boot = hub.boot /\ hub'.ids = hub.ids /\ hub'.heard = hub.heard /\ hub'.waits = {}
  BY <1>1, <1>2
<1>4. \A e \in mix.edits : edit'[e].map = edit[e].map /\ edit'[e].pc \in {edit[e].pc, "ended"}
  <2> SUFFICES ASSUME NEW e \in mix.edits PROVE edit'[e].map = edit[e].map /\ edit'[e].pc \in {edit[e].pc, "ended"}
    OBVIOUS
  <2>1. DOMAIN edit[e] = {"pc", "map", "ino", "told"}
    BY DEF EditTypes
  <2>2. edit'[e] = [edit[e] EXCEPT !.pc = "ended"] \/ edit'[e] = edit[e]
    BY <1>2
  <2> QED
    BY <2>1, <2>2
<1>5. TypesFit'
  BY <1>1, <1>2, <1>3, <1>4 DEF TypesFit, Skills, Files, homeVars
<1>6. IdsFit'
  BY <1>1, <1>3 DEF IdsFit, Configured
<1>7. ShopsFit'
  BY <1>1, <1>2, <1>4 DEF ShopsFit, MadeFor, File, Files, Inodes, Listed, homeVars
<1>8. SameWorld
  BY <1>2, <1>3 DEF SameWorld, Read, homeVars
<1>9. ASSUME NEW c \in mix.calls PROVE Goes(c)'
  <2>1. DOMAIN call[c] = CallFields /\ Goes(c)
    BY <1>1 DEF CallsInv, CallFits
  <2>2. call'[c] = IF call[c].pc \in {"idle", "ended"} THEN call[c] ELSE [call[c] EXCEPT !.pc = "ended", !.end = "lost"]
    BY DEF Crash
  <2>3. CASE call[c].pc \in {"idle", "ended"}
    BY <1>8, <2>1, <2>2, <2>3, GoesOnSame
  <2>4. CASE call[c].pc \notin {"idle", "ended"}
    <3>1. /\ call'[c].name = call[c].name /\ call'[c].boot = call[c].boot /\ call'[c].to = call[c].to
          /\ call'[c].ready = call[c].ready /\ call'[c].pc = "ended" /\ call'[c].end = "lost"
      BY <2>1, <2>2, <2>4 DEF CallFields
    <3>2. NamedFor(c, call[c].name) => NamedFor(c, call[c].name)'
      BY <1>8, <3>1, WorldSame DEF NamedFor
    <3>3. Rightly(c, call[c].to, call[c].ready) => Rightly(c, call[c].to, call[c].ready)'
      BY <1>8, <3>1, WorldSame DEF Rightly
    <3>4. "lost" \in WellEnded(c)
      BY DEF WellEnded
    <3>5. call'[c].end \in WellEnded(c)'
      BY <3>1, <3>4 DEF WellEnded
    <3> QED
      BY <1>3, <2>1, <2>4, <3>1, <3>2, <3>3, <3>5 DEF Goes, UnderwayNow
  <2> QED
    BY <2>3, <2>4
<1> QED
  BY <1>2, <1>5, <1>6, <1>7, <1>9 DEF GoesInv

\* The world is as it was, or the calls expect nothing of it any more; the files' names and the daemon stay.
LEMMA GoesKept ==
    ASSUME CallsInv, GoesInv, mix' = mix, hub' = hub, TypesFit', ShopsFit', (SameWorld /\ call' = call) \/ call' = Shaken
    PROVE  GoesInv'
<1>1. IdsFit'
  BY DEF GoesInv, IdsFit, Configured
<1>2. \A c \in mix'.calls : Goes(c)'
  BY CallsGoOn DEF GoesInv
<1> QED
  BY <1>1, <1>2 DEF GoesInv

LEMMA GoesStep ==
    ASSUME FilesInv, CallsInv, GoesInv, [Next]_vars
    PROVE  GoesInv'
<1>1. TypesFit /\ IdsFit /\ ShopsFit /\ (\A c \in mix.calls : Goes(c)) /\ EditTypes
  BY DEF GoesInv, FilesInv
<1>2. mix' = mix /\ hub' = hub /\ UNCHANGED homeVars /\ edit' = edit => TypesFit' /\ ShopsFit' /\ IdsFit'
  BY <1>1 DEF TypesFit, ShopsFit, IdsFit, Configured, homeVars, Skills, Files, MadeFor, Inodes, File, Listed
<1>3. CASE UNCHANGED vars
  <2>1. SameWorld /\ call' = call
    BY <1>3 DEF vars, homeVars, SameWorld, Read
  <2> QED
    BY <1>2, <1>3, <2>1, GoesKept DEF vars
<1>4. ASSUME NEW c \in Calls, Serves(c) PROVE GoesInv'
  <2>1. mix' = mix /\ hub' = hub /\ UNCHANGED homeVars /\ edit' = edit
    BY <1>4 DEF Serves
  <2>2. \A d \in mix.calls : Goes(d)'
    BY <1>1, <1>4, ServesGoes
  <2> QED
    BY <1>2, <2>1, <2>2 DEF GoesInv
<1>5. ASSUME NEW e \in Edits, EditStep(e) PROVE GoesInv'
  BY <1>1, <1>5, EditWorld, EditTypesKept, GoesKept
<1>6. ASSUME NEW e \in Edits, Dies(e) PROVE GoesInv'
  <2>1. e \in mix.edits /\ mix' = mix /\ hub' = hub /\ remote' = remote /\ call' = call /\ UNCHANGED homeVars /\ Finished(e, "nothing")
    BY <1>6 DEF Dies
  <2>2. Step(e, "ended", edit[e].map)
    BY <1>1, <2>1, EditedStep
  <2>3. /\ data' = data /\ clashed' \subseteq Files /\ "ended" \in Stages /\ (File(e) = "connectors" => Listed(edit[e].map))
        /\ \A k \in DOMAIN shelf' : shelf'[k] \in {"none", "half", "whole"}
    BY <1>1, <2>1 DEF homeVars, TypesFit, Skills, Stages, ShopsFit
  <2>4. TypesFit' /\ ShopsFit'
    BY <1>1, <2>1, <2>2, <2>3, StepTypes
  <2>5. SameWorld
    BY <2>1 DEF SameWorld, homeVars, Read
  <2> QED
    BY <2>1, <2>4, <2>5, GoesKept
<1>7. ASSUME NEW v, NEW state, RemoteChanges(v, state) PROVE GoesInv'
  <2>1. mix' = mix /\ hub' = hub /\ call' = Shaken /\ UNCHANGED homeVars /\ edit' = edit
    BY <1>7 DEF RemoteChanges
  <2> QED
    BY <1>2, <2>1, GoesKept
<1>8. CASE Boots
  BY <1>8, BootsGo DEF Boots, homeVars
<1>9. CASE Records \/ Drops
  <2>1. mix' = mix /\ hub' = hub /\ remote' = remote /\ call' = call /\ UNCHANGED homeVars /\ edit' = edit
    BY <1>9 DEF Records, Drops
  <2>2. SameWorld
    BY <2>1 DEF SameWorld, homeVars, Read
  <2> QED
    BY <1>2, <2>1, <2>2, GoesKept
<1>10. CASE Crash
  BY <1>1, <1>10, CrashGoes
<1> QED
  BY <1>3, <1>4, <1>5, <1>6, <1>7, <1>8, <1>9, <1>10 DEF Next

LEMMA GoesHold == Spec => []GoesInv
<1>1. FilesInv /\ CallsInv /\ GoesInv /\ [Next]_vars => GoesInv'
  BY GoesStep
<1> QED
  BY <1>1, GoesInit, FilesHold, CallsHold, PTL DEF Spec

\* A call goes where it was addressed, for any connectors, hooks, skills and calls: with the leave of every
\* hook that matches it (Hooks::check), to the connector or the source that owns its name, by whichever name
\* a model asked for it (ConnectorTools::serves, restore_names), and with what it needs stored or written
\* since the start it succeeds (ConnectorTools::invoke, Skills::invoke, interpolate).
THEOREM CallsGoHome == Spec => []CallsGoWhereTheyShould
<1>1. ASSUME FilesInv, CallsInv, RecordInv, GoesInv
      PROVE  TypeOK
  <2>1. /\ TypesFit /\ IdsFit /\ EditTypes /\ Places /\ DoingInOrder /\ mix \in Mixes
    BY <1>1 DEF GoesInv, FilesInv, RecordInv, CallsInv
  <2>2. None \notin Inodes /\ DOMAIN data = Inodes
    BY <2>1, MixFacts DEF EditTypes
  <2>3. \A f \in Files : {at[f]} \subseteq DOMAIN data /\ temp[f] \in (DOMAIN data \cup {None}) \ {at[f]}
    BY <2>1, <2>2 DEF Places, Inode
  <2>4. Cardinality(writer.doing) <= 1
    <3>1. CASE writer.doing = {}
      BY <3>1, FS_EmptySet
    <3>2. CASE writer.doing # {}
      <4>1. PICK line : writer.doing = {line}
        BY <2>1, <3>2 DEF DoingInOrder
      <4> QED
        BY <4>1, FS_Singleton
    <3> QED
      BY <3>1, <3>2
  <2>5. \A c \in mix.calls :
          /\ call[c].pc \in {"idle", "hooks", "blocked", "asked", "stores", "ended"}
          /\ call[c].end \in {"none", "ok", "failed", "refused", "unstored", "unrouted", "lost"}
          /\ (call[c].end # "none") = (call[c].pc = "ended")
    BY <1>1 DEF CallsInv, CallFits, Hows
  <2> QED
    BY <2>1, <2>3, <2>4, <2>5 DEF TypeOK, TypesFit, IdsFit
<1>2. ASSUME CallsInv, GoesInv
      PROVE  RoutedToItsOwner
  <2>1. ASSUME NEW c \in mix.calls, call[c].to # None, call[c].boot = hub.boot,
               Ask[c].owner = SkillSide => ~SkillsTaken,
               Ask[c].owner \in DOMAIN Wants => Ask[c].owner \in Configured /\ ~Trails(Ask[c].owner)
        PROVE  call[c].to = Ask[c].owner \/ (Ask[c].owner = SkillSide /\ call[c].to = GuestSide /\ ~call[c].ready)
    <3>1. Rightly(c, call[c].to, call[c].ready)
      BY <1>2, <2>1 DEF GoesInv, Goes
    <3>2. Ask[c].owner \in Sides \/ Ask[c].owner \in DOMAIN Wants
      BY <1>2, MixFacts, NamesAssumption DEF CallsInv
    <3> QED
      BY <2>1, <3>1, <3>2 DEF Rightly
  <2> QED
    BY <2>1 DEF RoutedToItsOwner
<1>3. ASSUME GoesInv
      PROVE  NoRestartNeeded
  BY <1>3 DEF NoRestartNeeded, GoesInv, Goes
<1>4. FilesInv /\ CallsInv /\ RecordInv /\ GoesInv /\ GuardHolds => CallsGoWhereTheyShould
  BY <1>1, <1>2, <1>3 DEF CallsGoWhereTheyShould
<1> QED
  BY <1>4, FilesHold, CallsHold, RecordHolds, GoesHold, HooksGuard, PTL

=============================================================================
