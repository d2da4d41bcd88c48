-------------------------- MODULE ProjectFileProofs --------------------------
(***************************************************************************)
(* Proofs about ProjectFile, for any number of commands and objects and    *)
(* any bounds on saves, runs and faults.                                   *)
(*                                                                         *)
(* LatestKept alone is not inductive: a copy of the last save counts for   *)
(* nothing when a running command is about to drop it.  Kept says which    *)
(* copies count: the path, what a command has put aside and will put back, *)
(* and what a dead one left, unless the copy is the link or the plaintext  *)
(* that a command is about to withdraw.  A link counts when its object     *)
(* holds the last save.                                                    *)
(***************************************************************************)
EXTENDS ProjectFile, TLAPS

At(c, steps) == cmd[c].step \in steps

(* A command has read the file; it has written the target as well; it      *)
(* works while the service is stopped; its private directory holds         *)
(* something.                                                              *)
Reading == {"create", "write", "recheck", "exchange", "validate", "rollback"}
Written == {"recheck", "exchange", "validate", "rollback"}
Offline == {"decrypt", "stage", "install", "check", "remove"}
Staging == {"validate", "rollback", "install", "check"}

HasObject == {"create", "write", "recheck", "exchange", "validate", "rollback",
              "stage", "install", "check", "remove", "editing", "read", "undo",
              "register"}

-----------------------------------------------------------------------------
(* The inductive invariant.                                                *)

(* No version is newer than the last one saved, no file younger than the   *)
(* last run.                                                               *)
Lasts(e) == e.version <= version /\ (e.kind = "file" => e.by <= begun)

Bounds ==
    /\ Lasts(path) /\ \A e \in leftover : Lasts(e)
    /\ \A c \in Commands : /\ Lasts(staged[c])
                           /\ cmd[c].data <= version /\ cmd[c].run <= begun
    /\ \A o \in Objects : vault[o] # Nil => vault[o] <= version
    /\ latest <= version

(* What a command knows at each step.                                      *)
CommandOK(c) ==
    /\ IF At(c, {"idle"}) THEN cmd[c] = Idle ELSE cmd[c].run > 0
    /\ At(c, HasObject) => cmd[c].obj \in Objects
    /\ At(c, {"classify", "resolve"}) => cmd[c].seen = None
    /\ At(c, Reading) => cmd[c].seen.kind = "file" /\ cmd[c].seen.version = cmd[c].data
    /\ At(c, Offline) <=> cmd[c].mode = "unprotect"
    /\ At(c, Offline) => ~mounted
    /\ At(c, {"stage", "install", "check", "remove"}) =>
         vault[cmd[c].obj] = cmd[c].data
    /\ At(c, Staging) <=> staged[c] # None
    /\ At(c, {"install"}) => staged[c] = File(cmd[c].data, cmd[c].run)

(* Nobody has the file that an unprotect has not installed yet.            *)
Unseen(c) ==
    At(c, {"decrypt", "stage", "install"}) =>
        /\ path.by # cmd[c].run
        /\ \A d \in Commands \ {c} : staged[d].by # cmd[c].run

(* One unprotect at a time; runs differ; no two commands have written the  *)
(* same object, unless blind says so.                                      *)
Apart ==
    \A c, d \in Commands : c # d =>
        /\ ~(At(c, Offline) /\ At(d, Offline))
        /\ ~At(c, {"idle"}) => cmd[c].run # cmd[d].run
        /\ ~blind /\ At(c, Written) /\ At(d, Written) => cmd[c].obj # cmd[d].obj

(* What a command has read existed when it was read, and no unprotect was   *)
(* under way when the target was written.                                  *)
SeenBefore ==
    \A c \in Commands : At(c, Reading) =>
        /\ cmd[c].seen.by <= begun
        /\ \A d \in Commands :
             At(c, Written) /\ At(d, Offline) => cmd[c].seen.by # cmd[d].run

PathGone == path = None => latest = 0

(* A target that was written still holds what was read while that is the   *)
(* last save, and nothing links to it before the exchange; it holds it in  *)
(* any case while nobody interferes.                                       *)
TargetOK(c) ==
    ~blind =>
        /\ At(c, Written) /\ latest # 0 /\ latest = cmd[c].data =>
             vault[cmd[c].obj] = latest
        /\ At(c, {"recheck", "exchange"}) /\ latest # 0 /\ latest = cmd[c].data =>
             ~Named(cmd[c].obj)
        /\ At(c, Written \cup {"register"}) /\ ~cmd[c].touched /\ cmd[c].seen # None =>
             vault[cmd[c].obj] = cmd[c].data

(* The entry a command has put aside is the one it expected and goes, or   *)
(* it is another one and goes back.                                        *)
Drops(c) ==
    \/ At(c, {"validate"}) /\ staged[c] = cmd[c].seen
    \/ At(c, {"check"}) /\ staged[c] = Link(cmd[c].obj)

PutsBack(c) == At(c, {"validate", "rollback", "check"}) /\ ~Drops(c)

(* The entry that goes when a command puts the other one back.             *)
Withdrawn(e) ==
    \E c \in Commands :
        /\ PutsBack(c) /\ cmd[c].data = latest
        /\ e = IF At(c, {"check"}) THEN File(cmd[c].data, cmd[c].run)
               ELSE Link(cmd[c].obj)

Saved(e) ==
    \/ e.kind = "file" /\ e.version = latest
    \/ e.kind = "link" /\ vault[e.obj] = latest

Keeps(e) == Saved(e) /\ ~Withdrawn(e)

Kept ==
    latest # 0 /\ ~blind =>
        \/ Keeps(path)
        \/ \E c \in Commands : PutsBack(c) /\ Keeps(staged[c])
        \/ \E e \in leftover : Saved(e)

ReportOK ==
    reported # Nil => (\A c \in Commands : cmd[c] = Idle) /\ ReportedIsProtected

IInv ==
    /\ TypeOK
    /\ Bounds
    /\ \A c \in Commands : CommandOK(c) /\ Unseen(c) /\ TargetOK(c)
    /\ Apart
    /\ SeenBefore
    /\ PathGone
    /\ Kept
    /\ ReportOK

-----------------------------------------------------------------------------
(* Entries.                                                                *)

(* What the three kinds of entry are made of.                              *)
LEMMA EntryFields ==
    /\ None.kind = "none" /\ None.version = 0 /\ None.by = Nil /\ None.obj = Nil
    /\ \A v, b : /\ File(v, b).kind = "file" /\ File(v, b).version = v
                 /\ File(v, b).by = b /\ File(v, b).obj = Nil
    /\ \A o : /\ Link(o).kind = "link" /\ Link(o).version = 0
              /\ Link(o).by = Nil /\ Link(o).obj = o
  BY DEF None, File, Link, Empty

(* They are entries, and there are no others.                              *)
LEMMA EntryTypes ==
    /\ None \in Entries
    /\ \A o \in Objects : Link(o) \in Entries
    /\ \A v \in Versions, b \in Runs : File(v, b) \in Entries
  BY DEF Entries

(* What an entry's kind says about it.                                     *)
LEMMA EntryKinds ==
    ASSUME NEW e \in Entries
    PROVE  /\ e.kind \in {"none", "file", "link"}
           /\ e.kind = "none" <=> e = None
           /\ e.kind = "file" => e.version \in Versions /\ e.by \in Runs
                                 /\ e = File(e.version, e.by)
           /\ e.kind = "link" => e.obj \in Objects /\ e = Link(e.obj)
           /\ e.kind # "file" => e.by = Nil /\ e.version = 0
           /\ e.version \in Versions
  <1>1. CASE e = None
    BY <1>1, EntryFields, ProjectFileAssumption DEF Versions
  <1>2. ASSUME NEW o \in Objects, e = Link(o)
        PROVE  e.kind = "link" /\ e.obj \in Objects /\ e = Link(e.obj)
               /\ e.by = Nil /\ e.version = 0 /\ e # None
    BY <1>2, EntryFields
  <1>3. ASSUME NEW v \in Versions, NEW b \in Runs, e = File(v, b)
        PROVE  e.kind = "file" /\ e.version \in Versions /\ e.by \in Runs
               /\ e = File(e.version, e.by) /\ e # None
    BY <1>3, EntryFields
  <1>4. 0 \in Versions
    BY ProjectFileAssumption DEF Versions
  <1> QED
    BY <1>1, <1>2, <1>3, <1>4, EntryFields DEF Entries

-----------------------------------------------------------------------------
(* What a step of command c does to the rest.                              *)

(* It leaves the other commands alone, or notes that it has interfered.    *)
LeavesOthers(c) ==
    \A d \in Commands \ {c} :
        /\ staged'[d] = staged[d]
        /\ cmd'[d].step = cmd[d].step /\ cmd'[d].mode = cmd[d].mode
        /\ cmd'[d].run = cmd[d].run /\ cmd'[d].obj = cmd[d].obj
        /\ cmd'[d].data = cmd[d].data /\ cmd'[d].seen = cmd[d].seen
        /\ cmd[d].touched => cmd'[d].touched
        /\ cmd[d] = Idle => cmd'[d] = Idle

(* It moves entries around, makes its own file, and links to the object it *)
(* has written or where there is a link or nothing to keep.                *)
Linked(c) ==
    {o \in Objects : latest = 0 \/ Named(o) \/ (At(c, Written) /\ o = cmd[c].obj)}

Stock(c) ==
    {None, path, staged[c], File(cmd[c].data, cmd[c].run)}
    \cup {Link(o) : o \in Linked(c)}

MovesEntries(c) ==
    /\ path' \in Stock(c) /\ staged'[c] \in Stock(c)
    /\ \A e \in leftover' : e \in leftover \/ e \in Stock(c)

(* It changes an object when the service runs or nobody else can, and one  *)
(* that others work on only if that is noted or there was nothing in it.   *)
ChangesVault(c) ==
    \A o \in Objects : vault'[o] # vault[o] =>
        /\ mounted \/ At(c, Offline)
        /\ \/ vault[o] = Nil
           \/ blind'
           \/ \A d \in Commands \ {c} :
                 cmd[d].obj = o => vault[o] = Empty /\ cmd'[d].touched
        /\ vault'[o] # Nil => vault'[o] <= version

Frame(c) ==
    /\ LeavesOthers(c) /\ MovesEntries(c) /\ ChangesVault(c)
    /\ UNCHANGED <<version, latest>>
    /\ begun' \in Nat /\ begun' >= begun
    /\ blind => blind'
    /\ mounted' => mounted \/ At(c, Offline)

(* An entry of the stock is known, has a known maker, and names no object  *)
(* that nothing named before.                                              *)
LEMMA StockFacts ==
    ASSUME IInv, NEW c \in Commands, NEW e \in Stock(c)
    PROVE  /\ e \in {path, staged[c]} \/ e.by \in {Nil, cmd[c].run}
           /\ Lasts(e)
           /\ \A o \in Objects : e = Link(o) => o \in Linked(c)
  <1>1. /\ TypeOK /\ Bounds
        /\ cmd[c].data <= version /\ cmd[c].run <= begun
        /\ version \in Nat /\ begun \in Nat
    BY ProjectFileAssumption DEF IInv, Bounds, TypeOK, Versions
  <1>2. CASE e \in {path, staged[c]}
    <2>1. Lasts(e)
      BY <1>1, <1>2 DEF Bounds
    <2>2. \A o \in Objects : e = Link(o) => Named(o)
      BY <1>2 DEF Named
    <2> QED
      BY <1>2, <2>1, <2>2 DEF Linked
  <1>3. CASE e = None
    BY <1>1, <1>3, EntryFields DEF Lasts
  <1>4. CASE e = File(cmd[c].data, cmd[c].run)
    BY <1>1, <1>4, EntryFields DEF Lasts
  <1>5. ASSUME NEW p \in Linked(c), e = Link(p)
        PROVE  /\ e.by = Nil /\ Lasts(e)
               /\ \A o \in Objects : e = Link(o) => o = p
    BY <1>1, <1>5, EntryFields DEF Lasts
  <1> QED
    BY <1>2, <1>3, <1>4, <1>5 DEF Stock

(* So no object gets its first link, except from the command that wrote it *)
(* or when there is nothing to keep.                                       *)
LEMMA NoNewNames ==
    ASSUME IInv, NEW c \in Commands, LeavesOthers(c), MovesEntries(c),
           NEW o \in Objects, Named(o)'
    PROVE  o \in Linked(c)
  <1>1. \/ Link(o) = path' \/ Link(o) \in leftover'
        \/ \E d \in Commands : Link(o) = staged'[d]
    BY DEF Named, Link
  <1>2. ASSUME NEW d \in Commands \ {c}, Link(o) = staged'[d] PROVE o \in Linked(c)
    BY <1>2 DEF LeavesOthers, Linked, Named
  <1>3. CASE Link(o) \in leftover
    BY <1>3 DEF Linked, Named
  <1>4. CASE Link(o) \in Stock(c)
    BY <1>4, StockFacts
  <1> QED
    BY <1>1, <1>2, <1>3, <1>4 DEF MovesEntries

(* The other commands still know what they knew.                           *)
LEMMA OthersKnow ==
    ASSUME IInv, NEW c \in Commands, Frame(c), NEW d \in Commands, d # c
    PROVE  CommandOK(d)' /\ Unseen(d)' /\ TargetOK(d)'
  <1>1. /\ CommandOK(d) /\ Unseen(d) /\ TargetOK(d) /\ TypeOK
        /\ cmd[d] \in CommandState /\ cmd[c] \in CommandState
        /\ vault \in [Objects -> Versions \cup {Nil}]
        /\ latest \in Nat
    BY ProjectFileAssumption DEF IInv, TypeOK, Versions
  <1>2. /\ staged'[d] = staged[d]
        /\ cmd'[d].step = cmd[d].step /\ cmd'[d].mode = cmd[d].mode
        /\ cmd'[d].run = cmd[d].run /\ cmd'[d].obj = cmd[d].obj
        /\ cmd'[d].data = cmd[d].data /\ cmd'[d].seen = cmd[d].seen
        /\ cmd[d].touched => cmd'[d].touched
        /\ cmd[d] = Idle => cmd'[d] = Idle
    BY DEF Frame, LeavesOthers
  <1>3. At(d, Offline) => ~mounted /\ ~At(c, Offline)
    BY <1>1 DEF CommandOK, IInv, Apart
  <1>4. CommandOK(d)'
    <2>1. At(d, {"stage", "install", "check", "remove"}) =>
            vault'[cmd[d].obj] = vault[cmd[d].obj]
      BY <1>1, <1>3 DEF Frame, ChangesVault, At, Offline, CommandOK, HasObject
    <2>2. At(d, Offline) => ~mounted'
      BY <1>3 DEF Frame
    <2> QED
      BY <1>1, <1>2, <2>1, <2>2 DEF CommandOK, At
  <1>5. Unseen(d)'
    <2> SUFFICES ASSUME At(d, {"decrypt", "stage", "install"})'
                 PROVE  /\ path'.by # cmd'[d].run
                        /\ \A x \in Commands \ {d} : staged'[x].by # cmd'[d].run
      BY DEF Unseen
    <2>1. /\ At(d, {"decrypt", "stage", "install"}) /\ ~At(d, {"idle"})
          /\ path.by # cmd[d].run
          /\ \A x \in Commands \ {d} : staged[x].by # cmd[d].run
      BY <1>1, <1>2 DEF Unseen, At
    <2>2. cmd[d].run # cmd[c].run /\ cmd[d].run # Nil
      BY <1>1, <2>1, ProjectFileAssumption DEF IInv, Apart, CommandState, Runs
    <2>3. \A e \in Stock(c) : e.by # cmd[d].run
      BY <2>1, <2>2, StockFacts
    <2> QED
      BY <1>2, <2>1, <2>3 DEF Frame, MovesEntries, LeavesOthers
  <1>6. TargetOK(d)'
    <2> SUFFICES ASSUME ~blind'
                 PROVE  /\ At(d, Written) /\ latest # 0 /\ latest = cmd[d].data =>
                             vault'[cmd[d].obj] = latest
                        /\ At(d, {"recheck", "exchange"}) /\ latest # 0
                             /\ latest = cmd[d].data => ~Named(cmd[d].obj)'
                        /\ At(d, Written \cup {"register"}) /\ ~cmd'[d].touched
                             /\ cmd[d].seen # None =>
                             vault'[cmd[d].obj] = cmd[d].data
      BY <1>2 DEF TargetOK, At, Frame, Named
    <2>1. ~blind
      BY DEF Frame
    <2>2. At(d, Written \cup {"register"}) => cmd[d].obj \in Objects
      BY <1>1 DEF CommandOK, At, Written, HasObject
    <2>3. ASSUME At(d, Written), latest # 0, latest = cmd[d].data
          PROVE  vault'[cmd[d].obj] = latest
      <3>1. vault[cmd[d].obj] = latest /\ latest # Nil
        BY <1>1, <2>1, <2>3, ProjectFileAssumption DEF TargetOK
      <3>2. cmd[d].obj \in Objects
        BY <2>2, <2>3 DEF At
      <3> QED
        BY <2>3, <3>1, <3>2 DEF Frame, ChangesVault, Empty
    <2>4. ASSUME At(d, {"recheck", "exchange"}), latest # 0, latest = cmd[d].data,
                 Named(cmd[d].obj)'
          PROVE  FALSE
      <3>1. ~Named(cmd[d].obj) /\ At(d, Written) /\ cmd[d].obj \in Objects
        BY <1>1, <2>1, <2>2, <2>4 DEF TargetOK, At, Written
      <3>2. cmd[d].obj \in Linked(c)
        <4>1. PICK o \in Objects : o = cmd[d].obj
          BY <3>1
        <4>2. Named(o)' <=> Named(cmd[d].obj)'
          BY <4>1, <1>2 DEF Named
        <4> QED
          BY <4>1, <4>2, <2>4, NoNewNames DEF Frame
      <3>3. At(c, Written) /\ cmd[c].obj = cmd[d].obj
        BY <2>4, <3>1, <3>2 DEF Linked
      <3> QED
        BY <2>1, <3>1, <3>3 DEF IInv, Apart
    <2>5. ASSUME At(d, Written \cup {"register"}), ~cmd'[d].touched,
                 cmd[d].seen # None
          PROVE  vault'[cmd[d].obj] = cmd[d].data
      <3>1. vault[cmd[d].obj] = cmd[d].data /\ ~cmd[d].touched
        BY <1>1, <1>2, <2>1, <2>5 DEF TargetOK
      <3>2. cmd[d].data # Nil /\ cmd[d].obj \in Objects
        BY <1>1, <2>2, <2>5, ProjectFileAssumption DEF CommandState, Versions
      <3> QED
        BY <2>5, <3>1, <3>2 DEF Frame, ChangesVault
    <2> QED
      BY <2>3, <2>4, <2>5
  <1> QED
    BY <1>4, <1>5, <1>6

(* A command that has ended.                                               *)
LEMMA IdleState ==
    /\ Idle \in CommandState
    /\ Idle.step = "idle" /\ Idle.mode = "none" /\ Idle.run = 0 /\ Idle.obj = Nil
    /\ Idle.data = 0 /\ Idle.seen = None /\ Idle.touched = FALSE
  BY ProjectFileAssumption, EntryTypes
     DEF Idle, CommandState, Steps, Runs, Versions, User, Empty

(* What c itself has to show.                                              *)
Knows(c) == CommandOK(c) /\ Unseen(c) /\ TargetOK(c)

KeepsApart(c) ==
    /\ \/ cmd'[c] = Idle
       \/ ~At(c, {"idle"}) /\ cmd'[c].run = cmd[c].run
       \/ begun' = begun + 1 /\ cmd'[c].run = begun'
    /\ At(c, Offline)' =>
         At(c, Offline) \/ (mounted /\ begun' = begun + 1 /\ cmd'[c].run = begun')
    /\ At(c, Reading)' =>
         cmd'[c].seen = path \/ (At(c, Reading) /\ cmd'[c].seen = cmd[c].seen)
    /\ At(c, Written)' =>
         /\ At(c, Written) \/ mounted
         /\ At(c, Reading) /\ cmd'[c].seen = cmd[c].seen
    /\ At(c, Written)' =>
         \/ blind'
         \/ At(c, Written) /\ cmd'[c].obj = cmd[c].obj
         \/ \A d \in Commands \ {c} : cmd[d].obj # cmd'[c].obj

(* Then the whole invariant is kept.                                       *)
LEMMA StepFrame ==
    ASSUME IInv, NEW c \in Commands, Frame(c), TypeOK', Knows(c)', KeepsApart(c),
           cmd'[c].data <= version, path' = None => path = None, Kept', ReportOK'
    PROVE  IInv'
  <1>1. \A d \in Commands : (CommandOK(d) /\ Unseen(d) /\ TargetOK(d))'
    BY OthersKnow DEF Knows
  <1>2. /\ TypeOK /\ Bounds /\ version \in Nat /\ begun \in Nat /\ begun' \in Nat
        /\ version' = version /\ latest' = latest /\ begun' >= begun
        /\ \A d \in Commands : /\ cmd[d] \in CommandState /\ cmd[d].run \in Nat
                               /\ cmd'[d].run \in Nat /\ staged[d] \in Entries
    <2>1. TypeOK /\ Bounds
      BY DEF IInv
    <2>2. version \in Nat /\ begun \in Nat
      BY <2>1, ProjectFileAssumption DEF TypeOK, Versions
    <2>3. \A d \in Commands : cmd[d] \in CommandState /\ cmd'[d] \in CommandState
                              /\ staged[d] \in Entries
      BY <2>1 DEF TypeOK
    <2>4. \A r \in CommandState : r.run \in Nat
      BY ProjectFileAssumption DEF CommandState, Runs
    <2> QED
      BY <2>1, <2>2, <2>3, <2>4 DEF Frame
  <1>3. Bounds'
    <2>1. \A e : Lasts(e) /\ (e.kind = "file" => e.by \in Nat) => Lasts(e)'
      BY <1>2 DEF Lasts
    <2>2. \A e \in Entries : Lasts(e) => Lasts(e)'
      BY <2>1, EntryKinds, ProjectFileAssumption DEF Runs
    <2>3. \A e \in Stock(c) : Lasts(e)
      BY StockFacts
    <2>4. /\ path' \in Entries /\ leftover' \subseteq Entries
          /\ \A d \in Commands : staged'[d] \in Entries
      BY DEF TypeOK
    <2>5. Lasts(path)'
      <3>1. PICK e \in Entries : e = path'
        BY <2>4
      <3> QED
        BY <3>1, <2>2, <2>3 DEF Frame, MovesEntries, Lasts
    <2>6. \A e \in leftover' : Lasts(e)'
      BY <1>2, <2>2, <2>3, <2>4 DEF Frame, MovesEntries, Bounds
    <2>7. ASSUME NEW d \in Commands
          PROVE  Lasts(staged[d])' /\ cmd'[d].data <= version /\ cmd'[d].run <= begun'
      <3>1. PICK e \in Entries : e = staged'[d]
        BY <2>4
      <3>2. CASE d = c
        <4>1. Lasts(e)'
          BY <3>1, <3>2, <2>2, <2>3 DEF Frame, MovesEntries
        <4>2. cmd'[c].run <= begun'
          BY <1>2, ProjectFileAssumption DEF KeepsApart, Bounds, Idle, User
        <4> QED
          BY <3>1, <3>2, <4>1, <4>2 DEF Lasts
      <3>3. CASE d # c
        <4>1. /\ e = staged[d] /\ cmd'[d].data = cmd[d].data
              /\ cmd'[d].run = cmd[d].run
          BY <3>1, <3>3 DEF Frame, LeavesOthers
        <4>2. Lasts(e)'
          BY <1>2, <2>2, <4>1 DEF Bounds
        <4> QED
          BY <1>2, <3>1, <4>1, <4>2 DEF Lasts, Bounds
      <3> QED
        BY <3>2, <3>3
    <2>8. \A o \in Objects : vault'[o] # Nil => vault'[o] <= version
      BY <1>2 DEF Frame, ChangesVault, Bounds
    <2> QED
      BY <1>2, <2>5, <2>6, <2>7, <2>8 DEF Bounds
  <1>4. Apart'
    <2>1. ASSUME NEW d \in Commands, d # c
          PROVE  /\ ~(At(c, Offline)' /\ At(d, Offline)')
                 /\ ~At(c, {"idle"})' => cmd'[c].run # cmd'[d].run
                 /\ ~At(d, {"idle"})' => cmd'[c].run # cmd'[d].run
                 /\ ~blind' /\ At(c, Written)' /\ At(d, Written)' =>
                      cmd'[c].obj # cmd'[d].obj
      <3>1. /\ cmd'[d].step = cmd[d].step /\ cmd'[d].run = cmd[d].run
            /\ cmd'[d].obj = cmd[d].obj
        BY <2>1 DEF Frame, LeavesOthers
      <3>2. /\ ~(At(c, Offline) /\ At(d, Offline))
            /\ ~At(c, {"idle"}) => cmd[c].run # cmd[d].run
            /\ ~At(d, {"idle"}) => cmd[c].run # cmd[d].run /\ cmd[d].run > 0
            /\ ~blind /\ At(c, Written) /\ At(d, Written) => cmd[c].obj # cmd[d].obj
        BY <2>1 DEF IInv, Apart, CommandOK
      <3>3. ~(At(c, Offline)' /\ At(d, Offline)')
        BY <2>1, <3>1, <3>2 DEF KeepsApart, At, IInv, CommandOK
      <3>4. /\ ~At(c, {"idle"})' => cmd'[c].run # cmd'[d].run
            /\ ~At(d, {"idle"})' => cmd'[c].run # cmd'[d].run
        <4>1. CASE cmd'[c] = Idle
          BY <3>1, <3>2, <4>1 DEF At, Idle, User
        <4>2. CASE ~At(c, {"idle"}) /\ cmd'[c].run = cmd[c].run
          BY <3>1, <3>2, <4>2 DEF At
        <4>3. CASE begun' = begun + 1 /\ cmd'[c].run = begun'
          BY <1>2, <3>1, <4>3 DEF Bounds
        <4> QED
          BY <4>1, <4>2, <4>3 DEF KeepsApart
      <3>5. ~blind' /\ At(c, Written)' /\ At(d, Written)' => cmd'[c].obj # cmd'[d].obj
        BY <2>1, <3>1, <3>2 DEF KeepsApart, At, Frame
      <3> QED
        BY <3>3, <3>4, <3>5
    <2>2. ASSUME NEW x \in Commands, NEW y \in Commands, x # y, x # c, y # c
          PROVE  /\ ~(At(x, Offline)' /\ At(y, Offline)')
                 /\ ~At(x, {"idle"})' => cmd'[x].run # cmd'[y].run
                 /\ ~blind' /\ At(x, Written)' /\ At(y, Written)' =>
                      cmd'[x].obj # cmd'[y].obj
      <3>1. /\ cmd'[x].step = cmd[x].step /\ cmd'[x].run = cmd[x].run
            /\ cmd'[x].obj = cmd[x].obj
            /\ cmd'[y].step = cmd[y].step /\ cmd'[y].run = cmd[y].run
            /\ cmd'[y].obj = cmd[y].obj
        BY <2>2 DEF Frame, LeavesOthers
      <3> QED
        BY <2>2, <3>1 DEF IInv, Apart, At, Frame
    <2> QED
      BY <2>1, <2>2 DEF Apart
  <1>5. PathGone'
    BY <1>2 DEF IInv, PathGone
  <1>6. SeenBefore'
    <2> SUFFICES ASSUME NEW x \in Commands, At(x, Reading)'
                 PROVE  /\ cmd'[x].seen.by <= begun'
                        /\ \A y \in Commands : At(x, Written)' /\ At(y, Offline)' =>
                             cmd'[x].seen.by # cmd'[y].run
      BY DEF SeenBefore
    <2>1. cmd'[x].seen.by <= begun
      <3>1. CASE At(x, Reading) /\ cmd'[x].seen = cmd[x].seen
        BY <3>1 DEF IInv, SeenBefore
      <3>2. CASE x = c /\ cmd'[x].seen = path
        <4>1. path.kind = "file"
          BY <1>1, <3>2 DEF CommandOK
        <4> QED
          BY <1>2, <3>2, <4>1 DEF Bounds, Lasts
      <3> QED
        BY <3>1, <3>2 DEF KeepsApart, Frame, LeavesOthers, At
    <2>2. cmd'[x].seen.by \in Nat
      <3>1. cmd'[x].seen.kind = "file"
        BY <1>1 DEF CommandOK
      <3>2. cmd'[x].seen \in Entries
        BY DEF TypeOK, CommandState
      <3> QED
        BY <3>1, <3>2, EntryKinds, ProjectFileAssumption DEF Runs
    <2>3. ASSUME NEW y \in Commands, At(x, Written)', At(y, Offline)'
          PROVE  cmd'[x].seen.by # cmd'[y].run
      <3>1. x # y
        BY <2>3 DEF At, Written, Offline
      <3>2. CASE x = c
        <4>1. At(y, Offline) /\ cmd'[y].run = cmd[y].run /\ ~mounted
          BY <2>3, <3>1, <3>2 DEF Frame, LeavesOthers, At, IInv, CommandOK
        <4>2. At(c, Written) /\ At(c, Reading) /\ cmd'[c].seen = cmd[c].seen
          BY <2>3, <3>2, <4>1 DEF KeepsApart
        <4> QED
          BY <3>2, <4>1, <4>2 DEF IInv, SeenBefore
      <3>3. CASE x # c
        <4>1. At(x, Written) /\ At(x, Reading) /\ cmd'[x].seen = cmd[x].seen
          BY <2>3, <3>3 DEF Frame, LeavesOthers, At
        <4>2. CASE At(y, Offline) /\ cmd'[y].run = cmd[y].run
          BY <4>1, <4>2 DEF IInv, SeenBefore
        <4>3. CASE y = c /\ begun' = begun + 1 /\ cmd'[c].run = begun'
          BY <1>2, <2>1, <2>2, <4>3
        <4>4. CASE y # c
          BY <2>3, <4>2, <4>4 DEF Frame, LeavesOthers, At
        <4>5. ~(y = c /\ cmd'[c] = Idle)
          BY <2>3, IdleState DEF At, Offline
        <4> QED
          BY <2>3, <4>2, <4>3, <4>4, <4>5 DEF KeepsApart
      <3> QED
        BY <3>2, <3>3
    <2> QED
      BY <1>2, <2>1, <2>2, <2>3
  <1> QED
    BY <1>1, <1>3, <1>4, <1>5, <1>6 DEF IInv

-----------------------------------------------------------------------------
(* Where the last save is.                                                 *)

(* An object that an entry names keeps the last save, or blind says so.    *)
KeepsNamed ==
    ~blind' /\ latest # 0 =>
        \A o \in Objects : Named(o) /\ vault[o] = latest => vault'[o] = latest

(* What is saved in an entry that is there stays saved in it.              *)
LEMMA SavedStays ==
    ASSUME IInv, KeepsNamed, latest' = latest, latest # 0, ~blind',
           NEW e \in Entries, Saved(e),
           e = path \/ e \in leftover \/ \E d \in Commands : e = staged[d]
    PROVE  Saved(e)'
  <1>1. CASE e.kind = "file"
    BY <1>1 DEF Saved
  <1>2. CASE e.kind = "link"
    <2>1. e.obj \in Objects /\ e = Link(e.obj) /\ vault[e.obj] = latest
      BY <1>2, EntryKinds DEF Saved
    <2>2. Named(e.obj)
      BY <2>1 DEF Named
    <2> QED
      BY <1>2, <2>1, <2>2 DEF KeepsNamed, Saved
  <1> QED
    BY <1>1, <1>2 DEF Saved

(* The other commands put back and withdraw what they did before.          *)
LEMMA OthersPutBack ==
    ASSUME NEW c \in Commands, LeavesOthers(c), latest' = latest
    PROVE  /\ \A d \in Commands \ {c} : PutsBack(d)' <=> PutsBack(d)
           /\ \A e : Withdrawn(e)' =>
                \/ Withdrawn(e)
                \/ /\ PutsBack(c)' /\ cmd'[c].data = latest
                   /\ e = IF At(c, {"check"})'
                          THEN File(cmd'[c].data, cmd'[c].run) ELSE Link(cmd'[c].obj)
  <1>1. \A d \in Commands \ {c} : PutsBack(d)' <=> PutsBack(d)
    BY DEF LeavesOthers, PutsBack, Drops, At
  <1>2. ASSUME NEW e, Withdrawn(e)'
        PROVE  \/ Withdrawn(e)
               \/ /\ PutsBack(c)' /\ cmd'[c].data = latest
                  /\ e = IF At(c, {"check"})'
                         THEN File(cmd'[c].data, cmd'[c].run) ELSE Link(cmd'[c].obj)
    <2>1. PICK d \in Commands :
            /\ PutsBack(d)' /\ cmd'[d].data = latest
            /\ e = IF At(d, {"check"})' THEN File(cmd'[d].data, cmd'[d].run)
                   ELSE Link(cmd'[d].obj)
      BY <1>2 DEF Withdrawn, At
    <2>2. CASE d # c
      <3>1. /\ PutsBack(d) /\ cmd'[d].data = cmd[d].data /\ cmd'[d].run = cmd[d].run
            /\ cmd'[d].obj = cmd[d].obj /\ (At(d, {"check"})' <=> At(d, {"check"}))
        BY <1>1, <2>1, <2>2 DEF LeavesOthers, At
      <3> QED
        BY <2>1, <3>1 DEF Withdrawn
    <2> QED
      BY <2>1, <2>2
  <1> QED
    BY <1>1, <1>2

(* A step after which c has nothing to put back, and before which the path *)
(* stayed or was put aside where c found it.                               *)
LEMMA KeptFrame ==
    ASSUME IInv, NEW c \in Commands, LeavesOthers(c), latest' = latest,
           blind => blind', leftover \subseteq leftover', KeepsNamed,
           cmd'[c].step \notin {"validate", "rollback", "check"},
           ~blind' /\ latest # 0 /\ Keeps(path) => path' = path \/ path \in leftover',
           ~blind' /\ latest # 0 /\ PutsBack(c) /\ Keeps(staged[c]) =>
              path' = staged[c] \/ staged[c] \in leftover'
    PROVE  Kept'
  <1> SUFFICES ASSUME latest # 0, ~blind'
               PROVE  \/ Keeps(path)'
                      \/ \E d \in Commands : PutsBack(d)' /\ Keeps(staged[d])'
                      \/ \E e \in leftover' : Saved(e)'
    BY DEF Kept
  <1>1. ~PutsBack(c)'
    BY DEF PutsBack, At
  <1>2. \A e : Withdrawn(e)' => Withdrawn(e)
    BY <1>1, OthersPutBack
  <1>3. /\ path \in Entries /\ leftover \subseteq Entries
        /\ \A d \in Commands : staged[d] \in Entries
    BY DEF IInv, TypeOK
  <1>4. CASE Keeps(path)
    <2>1. PICK e \in Entries : e = path
      BY <1>3
    <2>2. Saved(e)' /\ ~Withdrawn(e)'
      BY <1>2, <1>4, <2>1, SavedStays DEF Keeps
    <2>3. CASE path' = e
      BY <2>2, <2>3 DEF Keeps, Saved, Withdrawn
    <2> QED
      BY <1>4, <2>1, <2>2, <2>3
  <1>5. ASSUME NEW d \in Commands, PutsBack(d), Keeps(staged[d])
        PROVE  \/ Keeps(path)'
               \/ \E x \in Commands : PutsBack(x)' /\ Keeps(staged[x])'
               \/ \E e \in leftover' : Saved(e)'
    <2>1. PICK e \in Entries : e = staged[d]
      BY <1>3
    <2>2. Saved(e)' /\ ~Withdrawn(e)'
      BY <1>2, <1>5, <2>1, SavedStays DEF Keeps
    <2>3. CASE d = c
      <3>1. CASE path' = e
        BY <2>2, <3>1 DEF Keeps, Saved, Withdrawn
      <3> QED
        BY <1>5, <2>1, <2>2, <2>3, <3>1
    <2>4. CASE d # c
      <3>1. PutsBack(d)' /\ staged'[d] = e
        BY <1>5, <2>1, <2>4, OthersPutBack DEF LeavesOthers
      <3>2. Keeps(staged[d])'
        BY <2>2, <3>1 DEF Keeps, Saved, Withdrawn
      <3> QED
        BY <3>1, <3>2
    <2> QED
      BY <2>3, <2>4
  <1>6. ASSUME NEW e \in leftover, Saved(e) PROVE \E x \in leftover' : Saved(x)'
    BY <1>3, <1>6, SavedStays
  <1> QED
    BY <1>4, <1>5, <1>6 DEF IInv, Kept, Frame

-----------------------------------------------------------------------------
(* How a command goes on.                                                  *)

(* The state of one command changes.                                       *)
LEMMA CommandMoves ==
    ASSUME IInv, NEW c \in Commands, NEW r \in CommandState,
           cmd' = [cmd EXCEPT ![c] = r]
    PROVE  /\ cmd' \in [Commands -> CommandState] /\ cmd'[c] = r
           /\ \A d \in Commands : d # c => cmd'[d] = cmd[d]
  BY DEF IInv, TypeOK

(* Only the step of a command changes.                                     *)
LEMMA GoToIs ==
    ASSUME IInv, NEW c \in Commands, NEW step \in Steps, GoTo(c, step)
    PROVE  /\ cmd' \in [Commands -> CommandState]
           /\ cmd'[c].step = step /\ cmd'[c].mode = cmd[c].mode
           /\ cmd'[c].run = cmd[c].run /\ cmd'[c].obj = cmd[c].obj
           /\ cmd'[c].data = cmd[c].data /\ cmd'[c].seen = cmd[c].seen
           /\ cmd'[c].touched = cmd[c].touched
           /\ \A d \in Commands : d # c => cmd'[d] = cmd[d]
  <1>1. cmd[c] \in CommandState
    BY DEF IInv, TypeOK
  <1>2. PICK r : r = [cmd[c] EXCEPT !.step = step]
    OBVIOUS
  <1>3. /\ r \in CommandState /\ r.step = step /\ r.mode = cmd[c].mode
        /\ r.run = cmd[c].run /\ r.obj = cmd[c].obj /\ r.data = cmd[c].data
        /\ r.seen = cmd[c].seen /\ r.touched = cmd[c].touched
    BY <1>1, <1>2 DEF CommandState
  <1>4. cmd' = [cmd EXCEPT ![c] = r]
    BY <1>2 DEF GoTo
  <1> QED
    BY <1>3, <1>4, CommandMoves

(* A command ends.                                                         *)
LEMMA ReturnsIs ==
    ASSUME IInv, NEW c \in Commands, Returns(c)
    PROVE  /\ cmd' \in [Commands -> CommandState] /\ cmd'[c] = Idle
           /\ \A d \in Commands : d # c => cmd'[d] = cmd[d]
           /\ reported' = reported
  BY IdleState, CommandMoves DEF Returns

(* What the invariant says of one command.                                 *)
LEMMA CommandFacts ==
    ASSUME IInv, NEW c \in Commands
    PROVE  /\ cmd[c] \in CommandState /\ CommandOK(c) /\ Unseen(c) /\ TargetOK(c)
           /\ cmd[c].data \in Versions /\ cmd[c].data <= version /\ cmd[c].run \in Runs
           /\ cmd[c].data # Nil /\ cmd[c].run # Nil
           /\ staged[c] \in Entries /\ path \in Entries
           /\ version \in Nat /\ latest \in Nat /\ begun \in Nat
           /\ cmd[c].step \in Steps
  BY ProjectFileAssumption DEF IInv, Bounds, TypeOK, CommandState, Versions, Runs

(* Nothing is reported while a command runs.                               *)
LEMMA Unreported ==
    ASSUME IInv, NEW c \in Commands, ~At(c, {"idle"})
    PROVE  reported = Nil
  BY IdleState DEF IInv, ReportOK, At

(* Steps that leave the other commands as they are.                        *)
LEMMA LeavesOthersIs ==
    ASSUME NEW c \in Commands,
           \A d \in Commands : d # c => cmd'[d] = cmd[d] /\ staged'[d] = staged[d]
    PROVE  LeavesOthers(c)
  BY DEF LeavesOthers

(* A command that has ended knows nothing and is in nobody's way.          *)
LEMMA EndedKnows ==
    ASSUME NEW c \in Commands, cmd'[c] = Idle, staged'[c] = None
    PROVE  Knows(c)' /\ KeepsApart(c)
  BY IdleState DEF Knows, CommandOK, Unseen, TargetOK, KeepsApart, At, Reading,
     Written, Offline, Staging, HasObject

(* A command ends.                                                         *)
LEMMA EndFrame ==
    ASSUME IInv, NEW c \in Commands, Frame(c), TypeOK', cmd'[c] = Idle,
           staged'[c] = None, path' = None => path = None,
           ~At(c, {"idle"}), reported' = reported, KeepsNamed,
           leftover \subseteq leftover',
           ~blind' /\ latest # 0 /\ Keeps(path) => path' = path \/ path \in leftover',
           ~blind' /\ latest # 0 /\ PutsBack(c) /\ Keeps(staged[c]) =>
              path' = staged[c] \/ staged[c] \in leftover'
    PROVE  IInv'
  <1>1. Knows(c)' /\ KeepsApart(c)
    BY EndedKnows
  <1>2. Kept'
    BY KeptFrame, IdleState DEF Frame
  <1>3. ReportOK'
    BY Unreported DEF ReportOK
  <1>4. cmd'[c].data <= version
    BY IdleState, CommandFacts
  <1> QED
    BY <1>1, <1>2, <1>3, <1>4, StepFrame

(* A step that touches neither the disk nor the vault.                     *)
LEMMA QuietStep ==
    ASSUME IInv, NEW c \in Commands, TypeOK',
           \A d \in Commands : d # c => cmd'[d] = cmd[d],
           UNCHANGED <<path, staged, leftover, vault, version, latest, blind>>,
           begun' \in Nat, begun' >= begun, mounted' => mounted \/ At(c, Offline),
           ~At(c, Staging), ~At(c, Staging)',
           Knows(c)', KeepsApart(c), cmd'[c].data <= version,
           \/ reported' = Nil \/ ReportOK'
           \/ reported' = reported /\ ~At(c, {"idle"})
    PROVE  IInv'
  <1>1. Frame(c)
    BY LeavesOthersIs DEF Frame, MovesEntries, Stock, ChangesVault
  <1>2. ~PutsBack(c) /\ cmd'[c].step \notin {"validate", "rollback", "check"}
    BY DEF PutsBack, At, Staging
  <1>3. KeepsNamed
    BY DEF KeepsNamed
  <1>4. Kept'
    BY <1>1, <1>2, <1>3, KeptFrame DEF Frame
  <1>5. ReportOK'
    BY Unreported DEF ReportOK
  <1> QED
    BY <1>1, <1>4, <1>5, StepFrame

(* The same when the command ends.                                         *)
LEMMA QuietEnd ==
    ASSUME IInv, NEW c \in Commands, TypeOK', Returns(c), ~At(c, {"idle"}),
           UNCHANGED <<path, staged, leftover, vault, version, latest, blind, begun>>,
           mounted' => mounted \/ At(c, Offline), ~At(c, Staging)
    PROVE  IInv'
  <1>1. /\ cmd'[c] = Idle /\ reported' = reported
        /\ \A d \in Commands : d # c => cmd'[d] = cmd[d]
    BY ReturnsIs
  <1>2. staged'[c] = None
    BY CommandFacts DEF CommandOK
  <1>3. Knows(c)' /\ KeepsApart(c)
    BY <1>1, <1>2, EndedKnows
  <1>4. ~At(c, Staging)' /\ cmd'[c].data <= version /\ begun' >= begun /\ begun' \in Nat
    BY <1>1, IdleState, CommandFacts DEF At, Staging
  <1> QED
    BY <1>1, <1>3, <1>4, QuietStep

(* A command begins.                                                       *)
LEMMA BeginsIs ==
    ASSUME IInv, NEW c \in Commands, NEW step \in Steps,
           NEW mode \in {"import", "edit", "unprotect"},
           NEW o \in Objects \cup {Nil}, Begins(c, step, mode, o)
    PROVE  /\ cmd' \in [Commands -> CommandState]
           /\ cmd'[c].step = step /\ cmd'[c].mode = mode
           /\ cmd'[c].run = begun + 1 /\ cmd'[c].obj = o /\ cmd'[c].data = 0
           /\ cmd'[c].seen = None /\ cmd'[c].touched = FALSE
           /\ \A d \in Commands : d # c => cmd'[d] = cmd[d]
           /\ At(c, {"idle"}) /\ mounted /\ staged[c] = None
           /\ begun' = begun + 1 /\ begun' \in 0 .. MaxBegun /\ reported' = Nil
           /\ UNCHANGED <<version, latest, faults, blind>>
  <1>1. /\ At(c, {"idle"}) /\ mounted /\ begun' = begun + 1 /\ reported' = Nil
        /\ UNCHANGED <<version, latest, faults, blind>> /\ begun < MaxBegun
    BY DEF Begins, At
  <1>2. PICK r : r = [Idle EXCEPT !.step = step, !.mode = mode, !.run = begun + 1,
                                  !.obj = o]
    OBVIOUS
  <1>3. begun + 1 \in Runs /\ begun + 1 \in 0 .. MaxBegun
    BY <1>1, ProjectFileAssumption DEF IInv, TypeOK, Runs
  <1>4. /\ r \in CommandState /\ r.step = step /\ r.mode = mode
        /\ r.run = begun + 1 /\ r.obj = o /\ r.data = 0 /\ r.seen = None
        /\ r.touched = FALSE
    BY <1>2, <1>3, IdleState DEF CommandState
  <1>5. cmd' = [cmd EXCEPT ![c] = r]
    BY <1>2 DEF Begins
  <1>6. staged[c] = None
    BY <1>1, CommandFacts DEF CommandOK, At, Staging
  <1> QED
    BY <1>1, <1>3, <1>4, <1>5, <1>6, CommandMoves

(* passfs encrypt begins.                                                  *)
LEMMA BeginEncryptKeeps ==
    ASSUME IInv, NEW c \in Commands, BeginEncrypt(c)
    PROVE  IInv'
  <1>1. Begins(c, "classify", "import", Nil) /\ "classify" \in Steps
    BY DEF BeginEncrypt, Steps
  <1>2. UNCHANGED <<path, staged, leftover, vault, registered, mounted>>
    BY DEF BeginEncrypt, Disk, Store
  <1>3. /\ cmd' \in [Commands -> CommandState]
        /\ cmd'[c].step = "classify" /\ cmd'[c].mode = "import"
        /\ cmd'[c].run = begun + 1 /\ cmd'[c].data = 0 /\ cmd'[c].seen = None
        /\ \A d \in Commands : d # c => cmd'[d] = cmd[d]
        /\ At(c, {"idle"}) /\ mounted /\ staged[c] = None
        /\ begun' = begun + 1 /\ begun' \in 0 .. MaxBegun /\ reported' = Nil
        /\ UNCHANGED <<version, latest, faults, blind>>
    BY <1>1, BeginsIs
  <1>4. begun \in Nat /\ begun' \in Nat /\ 0 <= version /\ begun' >= begun
    BY <1>3, CommandFacts
  <1>5. TypeOK'
    BY <1>2, <1>3 DEF IInv, TypeOK
  <1>6. Knows(c)' /\ KeepsApart(c) /\ ~At(c, Staging)' /\ ~At(c, Staging)
    BY <1>2, <1>3, <1>4
       DEF Knows, CommandOK, Unseen, TargetOK, KeepsApart, At, Reading, Written,
           Offline, Staging, HasObject
  <1> QED
    BY <1>2, <1>3, <1>4, <1>5, <1>6, QuietStep

(* passfs unprotect begins: its run is younger than every file.            *)
LEMMA BeginUnprotectKeeps ==
    ASSUME IInv, NEW c \in Commands, BeginUnprotect(c)
    PROVE  IInv'
  <1>1. Begins(c, "decrypt", "unprotect", Nil) /\ "decrypt" \in Steps
    BY DEF BeginUnprotect, Steps
  <1>2. UNCHANGED <<path, staged, leftover, vault, registered>> /\ mounted' = FALSE
    BY DEF BeginUnprotect, Disk, Store
  <1>3. /\ cmd' \in [Commands -> CommandState]
        /\ cmd'[c].step = "decrypt" /\ cmd'[c].mode = "unprotect"
        /\ cmd'[c].run = begun + 1 /\ cmd'[c].data = 0 /\ cmd'[c].seen = None
        /\ \A d \in Commands : d # c => cmd'[d] = cmd[d]
        /\ At(c, {"idle"}) /\ mounted /\ staged[c] = None
        /\ begun' = begun + 1 /\ begun' \in 0 .. MaxBegun /\ reported' = Nil
        /\ UNCHANGED <<version, latest, faults, blind>>
    BY <1>1, BeginsIs
  <1>4. begun \in Nat /\ begun' \in Nat /\ 0 <= version /\ begun' >= begun
    BY <1>3, CommandFacts
  <1>5. TypeOK'
    BY <1>2, <1>3 DEF IInv, TypeOK
  <1>6. Unseen(c)'
    <2>1. \A e \in Entries : Lasts(e) => e.by # begun + 1
      BY <1>4, EntryKinds, ProjectFileAssumption DEF Lasts, Runs
    <2>2. path.by # begun + 1 /\ \A d \in Commands : staged[d].by # begun + 1
      BY <2>1 DEF IInv, TypeOK, Bounds
    <2> QED
      BY <1>2, <1>3, <2>2 DEF Unseen
  <1>7. Knows(c)' /\ KeepsApart(c) /\ ~At(c, Staging)' /\ ~At(c, Staging)
    BY <1>2, <1>3, <1>4, <1>6
       DEF Knows, CommandOK, TargetOK, KeepsApart, At, Reading, Written,
           Offline, Staging, HasObject
  <1> QED
    BY <1>2, <1>3, <1>4, <1>5, <1>7, QuietStep

(* Only an object of the vault owns the path.                              *)
LEMMA OwnersFacts ==
    ASSUME IInv, NEW o \in Owners
    PROVE  o \in Objects /\ vault[o] # Nil
  BY EntryKinds DEF Owners, IInv, TypeOK

(* A link is put where there is nothing, and then nothing to keep, or      *)
(* where it is already.                                                    *)
LEMMA LinkableFacts ==
    ASSUME IInv, NEW c \in Commands, NEW o \in Objects, Linkable(o)
    PROVE  /\ latest = 0 \/ path = Link(o)
           /\ o \in Linked(c)
  BY EntryKinds, CommandFacts DEF Linkable, IInv, PathGone, Linked, Named

(* encryptPaths finds out whether the path has an object.                  *)
LEMMA ClassifyKeeps ==
    ASSUME IInv, NEW c \in Commands, Classify(c)
    PROVE  IInv'
  <1>1. /\ cmd[c].step = "classify"
        /\ UNCHANGED <<version, latest, begun, path, staged, leftover, vault,
                       registered, mounted, blind, faults>>
    BY DEF Classify, Working, Disk, Store
  <1>2. ~At(c, Staging) /\ ~At(c, {"idle"}) /\ ~At(c, Offline)
    BY <1>1 DEF At, Staging, Offline
  <1>3. /\ cmd[c] \in CommandState /\ CommandOK(c) /\ cmd[c].run > 0
        /\ staged[c] = None /\ cmd[c].mode # "unprotect"
    BY <1>2, CommandFacts DEF CommandOK
  <1>4. ASSUME NEW o \in Owners \cap registered,
               cmd' = [cmd EXCEPT ![c].step = "read", ![c].mode = "replace", ![c].obj = o],
               UNCHANGED reported
        PROVE  IInv'
    <2>1. PICK r : r = [cmd[c] EXCEPT !.step = "read", !.mode = "replace", !.obj = o]
      OBVIOUS
    <2>2. /\ r \in CommandState /\ r.step = "read" /\ r.mode = "replace"
          /\ r.obj = o /\ r.run = cmd[c].run /\ r.data = cmd[c].data /\ o \in Objects
      BY <1>3, <2>1, OwnersFacts DEF CommandState, Steps
    <2>3. cmd' = [cmd EXCEPT ![c] = r]
      BY <1>4, <2>1
    <2>4. /\ cmd' \in [Commands -> CommandState] /\ cmd'[c] = r
          /\ \A d \in Commands : d # c => cmd'[d] = cmd[d]
      BY <2>2, <2>3, CommandMoves
    <2>5. TypeOK'
      BY <1>1, <1>4, <2>4 DEF IInv, TypeOK
    <2>6. Knows(c)' /\ KeepsApart(c) /\ ~At(c, Staging)'
      BY <1>1, <1>2, <1>3, <2>2, <2>4
         DEF Knows, CommandOK, Unseen, TargetOK, KeepsApart, At, Reading, Written,
             Offline, Staging, HasObject
    <2> QED
      BY <1>1, <1>2, <1>4, <2>2, <2>4, <2>5, <2>6, CommandFacts, QuietStep
  <1>5. CASE GoTo(c, "resolve") /\ UNCHANGED reported
    <2>1. "resolve" \in Steps
      BY DEF Steps
    <2>2. TypeOK'
      BY <1>1, <1>5, <2>1, GoToIs DEF IInv, TypeOK
    <2>3. Knows(c)' /\ KeepsApart(c) /\ ~At(c, Staging)'
      BY <1>1, <1>2, <1>3, <1>5, <2>1, GoToIs
         DEF Knows, CommandOK, Unseen, TargetOK, KeepsApart, At, Reading, Written,
             Offline, Staging, HasObject
    <2> QED
      BY <1>1, <1>2, <1>5, <2>1, <2>2, <2>3, GoToIs, CommandFacts, QuietStep
  <1>6. CASE Returns(c)
    <2>1. TypeOK'
      BY <1>1, <1>6, ReturnsIs DEF IInv, TypeOK
    <2> QED
      BY <1>1, <1>2, <1>6, <2>1, QuietEnd
  <1> QED
    BY <1>4, <1>5, <1>6 DEF Classify

(* The steps of an import before the file is read: no object is written    *)
(* yet, and an object that is removed as interrupted holds nothing.        *)
LEMMA ResolveKeeps ==
    ASSUME IInv, NEW c \in Commands, Resolve(c)
    PROVE  IInv'
  <1>1. /\ cmd[c].step = "resolve"
        /\ UNCHANGED <<version, latest, begun, staged, leftover, mounted, blind, faults>>
    BY DEF Resolve, Working
  <1>2. ~At(c, Staging) /\ ~At(c, {"idle"}) /\ ~At(c, Offline) /\ ~PutsBack(c)
    BY <1>1 DEF At, Staging, Offline, PutsBack
  <1>3. /\ cmd[c] \in CommandState /\ cmd[c].run > 0 /\ begun \in Nat
        /\ staged[c] = None /\ cmd[c].mode # "unprotect" /\ cmd[c].seen = None
        /\ cmd[c].data <= version /\ reported = Nil
    BY <1>1, <1>2, CommandFacts, Unreported DEF CommandOK, At
  <1>4. ASSUME NEW o \in Objects,
               cmd' = [cmd EXCEPT ![c].step = "read", ![c].obj = o],
               UNCHANGED <<path, vault, registered, reported>>
        PROVE  IInv'
    <2>1. PICK r : r = [cmd[c] EXCEPT !.step = "read", !.obj = o]
      OBVIOUS
    <2>2. /\ r \in CommandState /\ r.step = "read" /\ r.mode = cmd[c].mode
          /\ r.obj = o /\ r.run = cmd[c].run /\ r.data = cmd[c].data
      BY <1>3, <2>1 DEF CommandState, Steps
    <2>3. cmd' = [cmd EXCEPT ![c] = r]
      BY <1>4, <2>1
    <2>4. /\ cmd' \in [Commands -> CommandState] /\ cmd'[c] = r
          /\ \A d \in Commands : d # c => cmd'[d] = cmd[d]
      BY <2>2, <2>3, CommandMoves
    <2>5. TypeOK'
      BY <1>1, <1>4, <2>4 DEF IInv, TypeOK
    <2>6. Knows(c)' /\ KeepsApart(c) /\ ~At(c, Staging)'
      BY <1>1, <1>2, <1>3, <2>2, <2>4
         DEF Knows, CommandOK, Unseen, TargetOK, KeepsApart, At, Reading, Written,
             Offline, Staging, HasObject
    <2> QED
      BY <1>1, <1>2, <1>3, <1>4, <2>2, <2>4, <2>5, <2>6, QuietStep
  <1>5. ASSUME NEW o \in Owners, Interrupted(o), mounted,
               vault' = [vault EXCEPT ![o] = Nil], registered' = registered \ {o},
               cmd' = [x \in Commands |->
                  IF x = c THEN [cmd[c] EXCEPT !.step = "read", !.obj = o]
                  ELSE [cmd[x] EXCEPT !.touched = @ \/ cmd[x].obj = o]],
               UNCHANGED <<path, reported>>
        PROVE  IInv'
    <2>1. o \in Objects /\ vault[o] = 0
      BY <1>5, OwnersFacts DEF Interrupted, Empty
    <2>2. PICK r : r = [cmd[c] EXCEPT !.step = "read", !.obj = o]
      OBVIOUS
    <2>3. /\ r \in CommandState /\ r.step = "read" /\ r.mode = cmd[c].mode
          /\ r.obj = o /\ r.run = cmd[c].run /\ r.data = cmd[c].data /\ cmd'[c] = r
      BY <1>3, <1>5, <2>1, <2>2 DEF CommandState, Steps
    <2>4. ASSUME NEW d \in Commands \ {c}
          PROVE  /\ cmd'[d] \in CommandState
                 /\ cmd'[d].step = cmd[d].step /\ cmd'[d].mode = cmd[d].mode
                 /\ cmd'[d].run = cmd[d].run /\ cmd'[d].obj = cmd[d].obj
                 /\ cmd'[d].data = cmd[d].data /\ cmd'[d].seen = cmd[d].seen
                 /\ cmd[d].touched => cmd'[d].touched
                 /\ cmd[d].obj = o => cmd'[d].touched
                 /\ cmd[d] = Idle => cmd'[d] = Idle
      <3>1. cmd[d] \in CommandState
        BY CommandFacts
      <3>2. PICK b \in BOOLEAN : b = (cmd[d].touched \/ cmd[d].obj = o)
        OBVIOUS
      <3>3. cmd'[d] = [cmd[d] EXCEPT !.touched = b]
        BY <1>5, <3>2
      <3>4. cmd[d] = Idle => b = FALSE
        BY <2>1, <3>2, IdleState, ProjectFileAssumption
      <3>5. cmd[d] = Idle => cmd'[d] = Idle
        <4>1. cmd[d] = Idle => b = cmd[d].touched
          BY <3>4, IdleState
        <4>2. b = cmd[d].touched => [cmd[d] EXCEPT !.touched = b] = cmd[d]
          BY <3>1 DEF CommandState
        <4> QED
          BY <3>3, <4>1, <4>2
      <3> QED
        BY <3>1, <3>2, <3>3, <3>5 DEF CommandState
    <2>5. cmd' \in [Commands -> CommandState]
      BY <1>5, <2>3, <2>4
    <2>6. TypeOK'
      BY <1>1, <1>5, <2>1, <2>5 DEF IInv, TypeOK
    <2>7. \A p \in Objects : p # o => vault'[p] = vault[p]
      BY <1>5 DEF IInv, TypeOK
    <2>8. vault'[o] = Nil
      BY <1>5, <2>1 DEF IInv, TypeOK
    <2>9. Frame(c)
      <3>1. LeavesOthers(c)
        BY <1>1, <2>4 DEF LeavesOthers
      <3>2. MovesEntries(c)
        BY <1>1, <1>5 DEF MovesEntries, Stock
      <3>3. ChangesVault(c)
        BY <1>5, <2>1, <2>4, <2>7, <2>8 DEF ChangesVault, Empty
      <3> QED
        BY <1>1, <1>3, <3>1, <3>2, <3>3 DEF Frame
    <2>10. KeepsNamed
      BY <2>1, <2>7 DEF KeepsNamed
    <2>11. Knows(c)' /\ KeepsApart(c)
      BY <1>1, <1>2, <1>3, <2>1, <2>3
         DEF Knows, CommandOK, Unseen, TargetOK, KeepsApart, At, Reading, Written,
             Offline, Staging, HasObject
    <2>12. Kept'
      BY <1>1, <1>2, <1>5, <2>3, <2>9, <2>10, KeptFrame DEF Frame
    <2> QED
      BY <1>3, <1>5, <2>3, <2>6, <2>9, <2>11, <2>12, StepFrame DEF ReportOK
  <1>6. ASSUME NEW o \in Owners, Linkable(o), path' = Link(o),
               cmd' = [cmd EXCEPT ![c].step = "register", ![c].obj = o],
               UNCHANGED <<vault, registered, reported>>
        PROVE  IInv'
    <2>1. /\ o \in Objects /\ o \in Linked(c) /\ path' \in Entries
          /\ latest = 0 \/ path' = path
      BY <1>6, OwnersFacts, LinkableFacts, EntryTypes
    <2>2. PICK r : r = [cmd[c] EXCEPT !.step = "register", !.obj = o]
      OBVIOUS
    <2>3. /\ r \in CommandState /\ r.step = "register" /\ r.mode = cmd[c].mode
          /\ r.obj = o /\ r.run = cmd[c].run /\ r.data = cmd[c].data /\ r.seen = None
      BY <1>3, <2>1, <2>2 DEF CommandState, Steps
    <2>4. cmd' = [cmd EXCEPT ![c] = r]
      BY <1>6, <2>2
    <2>5. /\ cmd' \in [Commands -> CommandState] /\ cmd'[c] = r
          /\ \A d \in Commands : d # c => cmd'[d] = cmd[d]
      BY <2>3, <2>4, CommandMoves
    <2>6. TypeOK'
      BY <1>1, <1>6, <2>1, <2>5 DEF IInv, TypeOK
    <2>7. Frame(c)
      BY <1>1, <1>3, <1>6, <2>1, <2>5, LeavesOthersIs
         DEF Frame, MovesEntries, Stock, ChangesVault
    <2>8. KeepsNamed
      BY <1>6 DEF KeepsNamed
    <2>9. Knows(c)' /\ KeepsApart(c)
      BY <1>1, <1>2, <1>3, <2>1, <2>3, <2>5
         DEF Knows, CommandOK, Unseen, TargetOK, KeepsApart, At, Reading, Written,
             Offline, Staging, HasObject
    <2>10. Kept'
      BY <1>1, <1>2, <2>1, <2>3, <2>5, <2>7, <2>8, KeptFrame DEF Frame
    <2>11. path' # None
      BY <1>6, EntryFields
    <2> QED
      BY <1>3, <1>6, <2>3, <2>5, <2>6, <2>7, <2>9, <2>10, <2>11, StepFrame DEF ReportOK
  <1>7. CASE Returns(c) /\ UNCHANGED <<path, vault, registered>>
    <2>1. TypeOK'
      BY <1>1, <1>7, ReturnsIs DEF IInv, TypeOK
    <2> QED
      BY <1>1, <1>2, <1>7, <2>1, QuietEnd
  <1>8. \A o : o \in (IF Owners = {} /\ path.kind # "link" THEN Unused ELSE {})
             => o \in Objects
    BY DEF Unused
  <1> QED
    BY <1>4, <1>5, <1>6, <1>7, <1>8 DEF Resolve

(* readSourceFile: what was read is remembered with its contents.          *)
LEMMA ReadSourceKeeps ==
    ASSUME IInv, NEW c \in Commands, ReadSource(c)
    PROVE  IInv'
  <1>1. /\ cmd[c].step = "read"
        /\ UNCHANGED <<version, latest, begun, path, staged, leftover, vault,
                       registered, mounted, blind, faults>>
    BY DEF ReadSource, Working, Disk, Store
  <1>2. ~At(c, Staging) /\ ~At(c, {"idle"}) /\ ~At(c, Offline)
    BY <1>1 DEF At, Staging, Offline
  <1>3. /\ cmd[c] \in CommandState /\ cmd[c].run > 0 /\ begun \in Nat
        /\ staged[c] = None /\ cmd[c].mode # "unprotect" /\ cmd[c].obj \in Objects
    BY <1>1, <1>2, CommandFacts DEF CommandOK, At, HasObject
  <1>4. ASSUME path.kind = "file", UNCHANGED reported,
               cmd' = [cmd EXCEPT ![c].data = path.version, ![c].seen = path,
                  ![c].touched = FALSE,
                  ![c].step = IF cmd[c].mode = "import" THEN "create" ELSE "write"]
        PROVE  IInv'
    <2>1. PICK s \in {"create", "write"} :
            s = IF cmd[c].mode = "import" THEN "create" ELSE "write"
      OBVIOUS
    <2>2. PICK r : r = [cmd[c] EXCEPT !.data = path.version, !.seen = path,
                                      !.touched = FALSE, !.step = s]
      OBVIOUS
    <2>3. path \in Entries /\ path.version \in Versions /\ path.version <= version
      BY CommandFacts, EntryKinds DEF IInv, Bounds, Lasts
    <2>4. /\ r \in CommandState /\ r.step = s /\ r.mode = cmd[c].mode
          /\ r.obj = cmd[c].obj /\ r.run = cmd[c].run /\ r.data = path.version
          /\ r.seen = path
      BY <1>3, <2>1, <2>2, <2>3 DEF CommandState, Steps
    <2>5. cmd' = [cmd EXCEPT ![c] = r]
      BY <1>4, <2>1, <2>2
    <2>6. /\ cmd' \in [Commands -> CommandState] /\ cmd'[c] = r
          /\ \A d \in Commands : d # c => cmd'[d] = cmd[d]
      BY <2>4, <2>5, CommandMoves
    <2>7. TypeOK'
      BY <1>1, <1>4, <2>6 DEF IInv, TypeOK
    <2>8. Knows(c)' /\ KeepsApart(c) /\ ~At(c, Staging)'
      BY <1>1, <1>2, <1>3, <1>4, <2>1, <2>4, <2>6
         DEF Knows, CommandOK, Unseen, TargetOK, KeepsApart, At, Reading, Written,
             Offline, Staging, HasObject
    <2> QED
      BY <1>1, <1>2, <1>3, <1>4, <2>3, <2>4, <2>6, <2>7, <2>8, QuietStep
  <1>5. CASE Returns(c)
    <2>1. TypeOK'
      BY <1>1, <1>5, ReturnsIs DEF IInv, TypeOK
    <2> QED
      BY <1>1, <1>2, <1>5, <2>1, QuietEnd
  <1> QED
    BY <1>4, <1>5 DEF ReadSource

-----------------------------------------------------------------------------
(* The target and the exchange.                                            *)

(* The number of faults stays in its bound.                                *)
LEMMA FaultType ==
    ASSUME IInv, Fault \/ UNCHANGED faults
    PROVE  faults' \in 0 .. MaxFaults
  BY ProjectFileAssumption DEF IInv, TypeOK, Fault

(* A command that gives up before the exchange goes on to remove its       *)
(* target, or ends.                                                        *)
LEMMA GivesUpIs ==
    ASSUME IInv, NEW c \in Commands, GivesUp(c)
    PROVE  /\ cmd' \in [Commands -> CommandState] /\ reported' = reported
           /\ \A d \in Commands : d # c => cmd'[d] = cmd[d]
           /\ \/ cmd'[c] = Idle
              \/ /\ cmd'[c].step = "undo" /\ cmd'[c].mode = "import"
                 /\ cmd'[c].run = cmd[c].run /\ cmd'[c].obj = cmd[c].obj
                 /\ cmd'[c].data = cmd[c].data
  <1>1. CASE cmd[c].mode = "import"
    BY <1>1, GoToIs DEF GivesUp, Steps
  <1>2. CASE cmd[c].mode # "import"
    BY <1>2, ReturnsIs DEF GivesUp
  <1> QED
    BY <1>1, <1>2

(* Either way it knows what it has to, once its private directory is       *)
(* empty.                                                                  *)
LEMMA GivenUpKnows ==
    ASSUME IInv, NEW c \in Commands, GivesUp(c), At(c, Written \cup {"write"}),
           staged'[c] = None
    PROVE  Knows(c)' /\ KeepsApart(c) /\ cmd'[c].data <= version /\ ~At(c, Staging)'
  <1>1. CASE cmd'[c] = Idle
    BY <1>1, EndedKnows, IdleState, CommandFacts DEF At, Staging
  <1>2. CASE cmd'[c].step = "undo"
    <2>1. /\ cmd[c].run > 0 /\ cmd[c].obj \in Objects /\ ~At(c, {"idle"})
      BY CommandFacts DEF CommandOK, At, Written, HasObject
    <2> QED
      BY <1>2, <2>1, GivesUpIs, CommandFacts, IdleState
         DEF Knows, CommandOK, Unseen, TargetOK, KeepsApart, At, Reading, Written,
             Offline, Staging, HasObject
  <1> QED
    BY <1>1, <1>2, GivesUpIs

(* Giving up before anything has changed places keeps the invariant.       *)
LEMMA QuietGivesUp ==
    ASSUME IInv, NEW c \in Commands, GivesUp(c), At(c, {"write", "recheck", "exchange"}),
           UNCHANGED <<path, staged, leftover, vault, registered, mounted, version,
                       latest, blind, begun>>,
           Fault \/ UNCHANGED faults
    PROVE  IInv'
  <1>1. /\ cmd' \in [Commands -> CommandState] /\ reported' = reported
        /\ \A d \in Commands : d # c => cmd'[d] = cmd[d]
    BY GivesUpIs
  <1>2. ~At(c, Staging) /\ ~At(c, {"idle"}) /\ At(c, Written \cup {"write"})
    BY DEF At, Staging, Written
  <1>3. staged'[c] = None
    BY <1>2, CommandFacts DEF CommandOK
  <1>4. TypeOK'
    BY <1>1, FaultType DEF IInv, TypeOK
  <1>5. Knows(c)' /\ KeepsApart(c) /\ cmd'[c].data <= version /\ ~At(c, Staging)'
    BY <1>2, <1>3, GivenUpKnows
  <1>6. begun' \in Nat /\ begun' >= begun
    BY CommandFacts
  <1> QED
    BY <1>1, <1>2, <1>4, <1>5, <1>6, QuietStep

(* The target is created empty.                                            *)
LEMMA CreateTargetKeeps ==
    ASSUME IInv, NEW c \in Commands, CreateTarget(c)
    PROVE  IInv'
  <1>1. /\ cmd[c].step = "create"
        /\ UNCHANGED <<version, latest, begun, path, staged, leftover,
                       registered, mounted, blind, faults>>
    BY DEF CreateTarget, Working, Disk
  <1>2. ~At(c, Staging) /\ ~At(c, {"idle"}) /\ ~At(c, Offline) /\ ~PutsBack(c)
    BY <1>1 DEF At, Staging, Offline, PutsBack
  <1>3. /\ cmd[c] \in CommandState /\ cmd[c].run > 0 /\ begun \in Nat
        /\ staged[c] = None /\ cmd[c].mode # "unprotect" /\ cmd[c].obj \in Objects
        /\ cmd[c].seen.kind = "file" /\ cmd[c].seen.version = cmd[c].data
        /\ cmd[c].data <= version /\ reported = Nil /\ version \in Nat
        /\ latest \in Nat
    BY <1>1, <1>2, CommandFacts, Unreported DEF CommandOK, At, HasObject, Reading
  <1>4. ASSUME mounted, vault[cmd[c].obj] = Nil,
               vault' = [vault EXCEPT ![cmd[c].obj] = Empty],
               GoTo(c, "write"), UNCHANGED reported
        PROVE  IInv'
    <2>1. /\ cmd' \in [Commands -> CommandState]
          /\ cmd'[c].step = "write" /\ cmd'[c].mode = cmd[c].mode
          /\ cmd'[c].run = cmd[c].run /\ cmd'[c].obj = cmd[c].obj
          /\ cmd'[c].data = cmd[c].data /\ cmd'[c].seen = cmd[c].seen
          /\ \A d \in Commands : d # c => cmd'[d] = cmd[d]
      BY <1>4, GoToIs DEF Steps
    <2>2. /\ vault' \in [Objects -> Versions \cup {Nil}] /\ vault'[cmd[c].obj] = 0
          /\ \A o \in Objects : o # cmd[c].obj => vault'[o] = vault[o]
      BY <1>3, <1>4, ProjectFileAssumption DEF IInv, TypeOK, Versions, Empty
    <2>3. TypeOK'
      BY <1>1, <1>4, <2>1, <2>2 DEF IInv, TypeOK
    <2>4. Frame(c)
      <3>1. ChangesVault(c)
        BY <1>3, <1>4, <2>2 DEF ChangesVault
      <3> QED
        BY <1>1, <1>3, <1>4, <2>1, <3>1, LeavesOthersIs DEF Frame, MovesEntries, Stock
    <2>5. KeepsNamed
      BY <1>3, <1>4, <2>2, ProjectFileAssumption DEF KeepsNamed
    <2>6. Knows(c)' /\ KeepsApart(c)
      BY <1>1, <1>2, <1>3, <2>1
         DEF Knows, CommandOK, Unseen, TargetOK, KeepsApart, At, Reading, Written,
             Offline, Staging, HasObject
    <2>7. Kept'
      BY <1>1, <1>2, <2>1, <2>4, <2>5, KeptFrame DEF Frame
    <2> QED
      BY <1>1, <1>3, <1>4, <2>1, <2>3, <2>4, <2>6, <2>7, StepFrame DEF ReportOK
  <1>5. CASE Returns(c) /\ UNCHANGED vault
    <2>1. TypeOK'
      BY <1>1, <1>5, ReturnsIs DEF IInv, TypeOK
    <2> QED
      BY <1>1, <1>2, <1>5, <2>1, QuietEnd
  <1> QED
    BY <1>4, <1>5 DEF CreateTarget

(* The target is written.  From here on the command answers for the copy,  *)
(* and no other one does, unless blind says so.                            *)
LEMMA WriteTargetKeeps ==
    ASSUME IInv, NEW c \in Commands, WriteTarget(c)
    PROVE  IInv'
  <1>1. /\ cmd[c].step = "write"
        /\ UNCHANGED <<version, latest, begun, path, staged, leftover,
                       registered, mounted>>
    BY DEF WriteTarget, Working, Disk
  <1>2. ~At(c, Staging) /\ ~At(c, {"idle"}) /\ ~At(c, Offline) /\ ~PutsBack(c)
    BY <1>1 DEF At, Staging, Offline, PutsBack
  <1>3. /\ cmd[c] \in CommandState /\ cmd[c].run > 0 /\ begun \in Nat
        /\ staged[c] = None /\ cmd[c].mode # "unprotect" /\ cmd[c].obj \in Objects
        /\ cmd[c].seen.kind = "file" /\ cmd[c].seen.version = cmd[c].data
        /\ cmd[c].data <= version /\ reported = Nil /\ version \in Nat
        /\ cmd[c].data \in Versions
    BY <1>1, <1>2, CommandFacts, Unreported DEF CommandOK, At, HasObject, Reading
  <1>4. ASSUME mounted, vault' = [vault EXCEPT ![cmd[c].obj] = cmd[c].data],
               blind' = (blind \/ Shared(c) \/ Named(cmd[c].obj)),
               GoTo(c, "recheck"), UNCHANGED <<reported, faults>>
        PROVE  IInv'
    <2>1. /\ cmd' \in [Commands -> CommandState]
          /\ cmd'[c].step = "recheck" /\ cmd'[c].mode = cmd[c].mode
          /\ cmd'[c].run = cmd[c].run /\ cmd'[c].obj = cmd[c].obj
          /\ cmd'[c].data = cmd[c].data /\ cmd'[c].seen = cmd[c].seen
          /\ \A d \in Commands : d # c => cmd'[d] = cmd[d]
      BY <1>4, GoToIs DEF Steps
    <2>2. /\ vault' \in [Objects -> Versions \cup {Nil}]
          /\ vault'[cmd[c].obj] = cmd[c].data
          /\ \A o \in Objects : o # cmd[c].obj => vault'[o] = vault[o]
      BY <1>3, <1>4 DEF IInv, TypeOK
    <2>3. TypeOK'
      BY <1>1, <1>4, <2>1, <2>2 DEF IInv, TypeOK
    <2>4. ~blind' => ~blind /\ ~Named(cmd[c].obj)
                     /\ \A d \in Commands \ {c} : cmd[d].obj # cmd[c].obj
      BY <1>4 DEF Shared
    <2>5. Frame(c)
      <3>1. ChangesVault(c)
        BY <1>3, <1>4, <2>2, <2>4 DEF ChangesVault
      <3> QED
        BY <1>1, <1>3, <2>1, <2>4, <3>1, LeavesOthersIs DEF Frame, MovesEntries, Stock
    <2>6. KeepsNamed
      BY <2>2, <2>4 DEF KeepsNamed
    <2>7. Knows(c)' /\ KeepsApart(c)
      <3>1. TargetOK(c)'
        <4>1. Named(cmd[c].obj)' <=> Named(cmd[c].obj)
          BY <1>1, <2>1 DEF Named
        <4> QED
          BY <1>1, <2>1, <2>2, <2>4, <4>1 DEF TargetOK, At
      <3>2. CommandOK(c)' /\ Unseen(c)'
        BY <1>1, <1>2, <1>3, <2>1
           DEF CommandOK, Unseen, At, Reading, Written, Offline, Staging, HasObject
      <3>3. KeepsApart(c)
        BY <1>1, <1>2, <1>4, <2>1, <2>4 DEF KeepsApart, At, Offline, Reading
      <3> QED
        BY <3>1, <3>2, <3>3 DEF Knows
    <2>8. Kept'
      BY <1>1, <1>2, <2>1, <2>5, <2>6, KeptFrame DEF Frame
    <2> QED
      BY <1>1, <1>3, <1>4, <2>1, <2>3, <2>5, <2>7, <2>8, StepFrame DEF ReportOK
  <1>5. CASE GivesUp(c) /\ UNCHANGED <<vault, blind>> /\ (Fault \/ UNCHANGED faults)
    BY <1>1, <1>5, QuietGivesUp DEF At
  <1> QED
    BY <1>4, <1>5 DEF WriteTarget

(* The path is compared with what was read.                                *)
LEMMA RecheckKeeps ==
    ASSUME IInv, NEW c \in Commands, Recheck(c)
    PROVE  IInv'
  <1>1. /\ cmd[c].step = "recheck"
        /\ UNCHANGED <<version, latest, begun, path, staged, leftover, vault,
                       registered, mounted, blind, faults>>
    BY DEF Recheck, Working, Disk, Store
  <1>2. CASE GoTo(c, "exchange") /\ UNCHANGED reported
    <2>1. /\ cmd' \in [Commands -> CommandState]
          /\ cmd'[c].step = "exchange" /\ cmd'[c].mode = cmd[c].mode
          /\ cmd'[c].run = cmd[c].run /\ cmd'[c].obj = cmd[c].obj
          /\ cmd'[c].data = cmd[c].data /\ cmd'[c].seen = cmd[c].seen
          /\ cmd'[c].touched = cmd[c].touched
          /\ \A d \in Commands : d # c => cmd'[d] = cmd[d]
      BY <1>2, GoToIs DEF Steps
    <2>2. TypeOK'
      BY <1>1, <1>2, <2>1 DEF IInv, TypeOK
    <2>3. CommandOK(c)' /\ Unseen(c)'
      BY <1>1, <2>1, CommandFacts
         DEF CommandOK, Unseen, At, Reading, Offline, Staging, HasObject
    <2>4. TargetOK(c)'
      <3>1. Named(cmd[c].obj)' <=> Named(cmd[c].obj)
        BY <1>1, <2>1 DEF Named
      <3> QED
        BY <1>1, <2>1, <3>1, CommandFacts DEF TargetOK, At, Written
    <2>5. /\ KeepsApart(c) /\ ~At(c, Staging) /\ ~At(c, Staging)'
          /\ ~At(c, {"idle"}) /\ begun' \in Nat /\ begun' >= begun
      BY <1>1, <2>1, CommandFacts
         DEF KeepsApart, At, Offline, Reading, Written, Staging
    <2> QED
      BY <1>1, <1>2, <2>1, <2>2, <2>3, <2>4, <2>5, CommandFacts, QuietStep DEF Knows
  <1>3. CASE GivesUp(c)
    BY <1>1, <1>3, QuietGivesUp DEF At
  <1> QED
    BY <1>2, <1>3 DEF Recheck

-----------------------------------------------------------------------------
(* Editing and reporting.                                                  *)

(* passfs edit begins: the link is put where it is, or where there is      *)
(* nothing.                                                                *)
LEMMA BeginEditKeeps ==
    ASSUME IInv, NEW c \in Commands, BeginEdit(c)
    PROVE  IInv'
  <1>1. PICK o \in Owners :
          /\ Begins(c, "editing", "edit", o) /\ Linkable(o) /\ path' = Link(o)
          /\ registered' = registered \cup {o}
    BY DEF BeginEdit
  <1>2. UNCHANGED <<staged, leftover, vault, mounted>>
    BY DEF BeginEdit
  <1>3. /\ o \in Objects /\ o \in Linked(c) /\ path' \in Entries
        /\ latest = 0 \/ path' = path
        /\ path' # None
    BY <1>1, OwnersFacts, LinkableFacts, EntryTypes, EntryFields
  <1>4. /\ cmd' \in [Commands -> CommandState]
        /\ cmd'[c].step = "editing" /\ cmd'[c].mode = "edit"
        /\ cmd'[c].run = begun + 1 /\ cmd'[c].data = 0 /\ cmd'[c].seen = None
        /\ cmd'[c].obj = o
        /\ \A d \in Commands : d # c => cmd'[d] = cmd[d]
        /\ At(c, {"idle"}) /\ mounted /\ staged[c] = None
        /\ begun' = begun + 1 /\ begun' \in 0 .. MaxBegun /\ reported' = Nil
        /\ UNCHANGED <<version, latest, faults, blind>>
    <2>1. PICK b \in Objects \cup {Nil} : b = o
      BY <1>3
    <2>2. Begins(c, "editing", "edit", b) /\ "editing" \in Steps
      BY <1>1, <2>1 DEF Steps
    <2>3. /\ cmd' \in [Commands -> CommandState]
          /\ cmd'[c].step = "editing" /\ cmd'[c].mode = "edit"
          /\ cmd'[c].run = begun + 1 /\ cmd'[c].obj = b /\ cmd'[c].data = 0
          /\ cmd'[c].seen = None /\ cmd'[c].touched = FALSE
          /\ \A d \in Commands : d # c => cmd'[d] = cmd[d]
          /\ At(c, {"idle"}) /\ mounted /\ staged[c] = None
          /\ begun' = begun + 1 /\ begun' \in 0 .. MaxBegun /\ reported' = Nil
          /\ UNCHANGED <<version, latest, faults, blind>>
      BY <2>2, BeginsIs
    <2> QED
      BY <2>1, <2>3
  <1>5. begun \in Nat /\ begun' \in Nat /\ 0 <= version /\ begun' >= begun
    BY <1>4, CommandFacts
  <1>6. TypeOK'
    BY <1>1, <1>2, <1>3, <1>4 DEF IInv, TypeOK
  <1>7. Frame(c)
    BY <1>1, <1>2, <1>3, <1>4, <1>5, LeavesOthersIs
       DEF Frame, MovesEntries, Stock, ChangesVault
  <1>8. KeepsNamed
    BY <1>2 DEF KeepsNamed
  <1>9. Knows(c)' /\ KeepsApart(c) /\ ~PutsBack(c)
    BY <1>2, <1>3, <1>4, <1>5
       DEF Knows, CommandOK, Unseen, TargetOK, KeepsApart, At, Reading, Written,
           Offline, Staging, HasObject, PutsBack
  <1>10. Kept'
    BY <1>2, <1>3, <1>4, <1>7, <1>8, <1>9, KeptFrame DEF Frame
  <1> QED
    BY <1>3, <1>4, <1>5, <1>6, <1>7, <1>9, <1>10, StepFrame DEF ReportOK

(* The editor has ended.                                                   *)
LEMMA ReconcileKeeps ==
    ASSUME IInv, NEW c \in Commands, ReconcileProtectedEdit(c)
    PROVE  IInv'
  <1>1. /\ cmd[c].step = "editing"
        /\ UNCHANGED <<version, latest, begun, path, staged, leftover, vault,
                       registered, mounted, blind, faults>>
    BY DEF ReconcileProtectedEdit, Working, Disk, Store
  <1>2. ~At(c, Staging) /\ ~At(c, {"idle"}) /\ ~At(c, Offline)
    BY <1>1 DEF At, Staging, Offline
  <1>3. /\ cmd[c] \in CommandState /\ cmd[c].run > 0 /\ begun \in Nat
        /\ staged[c] = None /\ cmd[c].mode # "unprotect" /\ cmd[c].obj \in Objects
        /\ cmd[c].data <= version
    BY <1>1, <1>2, CommandFacts DEF CommandOK, At, HasObject
  <1>4. CASE GoTo(c, "read") /\ UNCHANGED reported
    <2>1. /\ cmd' \in [Commands -> CommandState]
          /\ cmd'[c].step = "read" /\ cmd'[c].mode = cmd[c].mode
          /\ cmd'[c].run = cmd[c].run /\ cmd'[c].obj = cmd[c].obj
          /\ cmd'[c].data = cmd[c].data
          /\ \A d \in Commands : d # c => cmd'[d] = cmd[d]
      BY <1>4, GoToIs DEF Steps
    <2>2. TypeOK'
      BY <1>1, <1>4, <2>1 DEF IInv, TypeOK
    <2>3. Knows(c)' /\ KeepsApart(c) /\ ~At(c, Staging)'
      BY <1>1, <1>2, <1>3, <2>1
         DEF Knows, CommandOK, Unseen, TargetOK, KeepsApart, At, Reading, Written,
             Offline, Staging, HasObject
    <2> QED
      BY <1>1, <1>2, <1>3, <1>4, <2>1, <2>2, <2>3, QuietStep
  <1>5. CASE Returns(c)
    <2>1. TypeOK'
      BY <1>1, <1>5, ReturnsIs DEF IInv, TypeOK
    <2> QED
      BY <1>1, <1>2, <1>5, <2>1, QuietEnd
  <1> QED
    BY <1>4, <1>5 DEF ReconcileProtectedEdit

(* The link is recorded, and what an undisturbed command reports is so.    *)
LEMMA RegisterKeeps ==
    ASSUME IInv, NEW c \in Commands, Register(c)
    PROVE  IInv'
  <1>1. /\ cmd[c].step = "register" /\ cmd' = [cmd EXCEPT ![c] = Idle]
        /\ UNCHANGED <<version, latest, begun, path, staged, leftover, vault,
                       mounted, blind, faults>>
    BY DEF Register, Working, Disk
  <1>2. ~At(c, Staging) /\ ~At(c, {"idle"}) /\ ~At(c, Offline)
    BY <1>1 DEF At, Staging, Offline
  <1>3. /\ staged[c] = None /\ cmd[c].obj \in Objects /\ begun \in Nat
        /\ cmd[c].data \in Versions /\ reported = Nil /\ 0 <= version
        /\ TargetOK(c)
    BY <1>1, <1>2, CommandFacts, Unreported DEF CommandOK, At, HasObject
  <1>4. /\ cmd' \in [Commands -> CommandState] /\ cmd'[c] = Idle
        /\ \A d \in Commands : d # c => cmd'[d] = cmd[d]
    BY <1>1, IdleState, CommandMoves
  <1>5. Knows(c)' /\ KeepsApart(c) /\ ~At(c, Staging)' /\ cmd'[c].data <= version
    BY <1>1, <1>3, <1>4, EndedKnows, IdleState DEF At, Staging
  <1>6. CASE /\ path = Link(cmd[c].obj)
             /\ registered' = registered \cup {cmd[c].obj}
             /\ reported' = IF cmd[c].touched \/ cmd[c].seen = None
                               \/ \E x \in Commands \ {c} : cmd[x].step # "idle"
                            THEN Nil ELSE <<cmd[c].obj, cmd[c].data>>
    <2>1. TypeOK'
      BY <1>1, <1>3, <1>4, <1>6 DEF IInv, TypeOK
    <2>2. CASE reported' = Nil
      BY <1>1, <1>2, <1>3, <1>4, <1>5, <2>1, <2>2, QuietStep
    <2>3. CASE reported' # Nil
      <3>1. /\ ~cmd[c].touched /\ cmd[c].seen # None
            /\ \A x \in Commands \ {c} : cmd[x].step = "idle"
            /\ reported' = <<cmd[c].obj, cmd[c].data>>
        BY <1>6, <2>3
      <3>2. \A x \in Commands : cmd'[x] = Idle
        BY <1>4, <3>1, CommandFacts DEF CommandOK, At
      <3>3. ~blind => vault[cmd[c].obj] = cmd[c].data
        BY <1>1, <1>3, <3>1 DEF TargetOK, At
      <3>4. reported'[1] = cmd[c].obj /\ reported'[2] = cmd[c].data
        BY <3>1
      <3>5. ReportedIsProtected'
        BY <1>1, <1>6, <3>3, <3>4 DEF ReportedIsProtected, Link
      <3>6. ReportOK'
        BY <3>2, <3>5 DEF ReportOK
      <3> QED
        BY <1>1, <1>2, <1>3, <1>4, <1>5, <2>1, <3>6, QuietStep
    <2> QED
      BY <2>2, <2>3
  <1>7. CASE UNCHANGED <<registered, reported>>
    <2>1. TypeOK'
      BY <1>1, <1>4, <1>7 DEF IInv, TypeOK
    <2> QED
      BY <1>1, <1>2, <1>3, <1>4, <1>5, <1>7, <2>1, QuietStep
  <1> QED
    BY <1>6, <1>7 DEF Register

-----------------------------------------------------------------------------
(* Unprotecting, removing and dying.                                       *)

(* The object to decrypt is found, and its contents read.                  *)
LEMMA DecryptFileKeeps ==
    ASSUME IInv, NEW c \in Commands, DecryptFile(c)
    PROVE  IInv'
  <1>1. /\ cmd[c].step = "decrypt"
        /\ UNCHANGED <<version, latest, begun, path, staged, leftover, vault,
                       registered, blind, faults>>
    BY DEF DecryptFile, Working, Disk, Store
  <1>2. ~At(c, Staging) /\ ~At(c, {"idle"}) /\ At(c, Offline)
    BY <1>1 DEF At, Staging, Offline
  <1>3. /\ cmd[c] \in CommandState /\ cmd[c].run > 0 /\ begun \in Nat
        /\ staged[c] = None /\ cmd[c].mode = "unprotect" /\ ~mounted
        /\ path.by # cmd[c].run
        /\ \A d \in Commands \ {c} : staged[d].by # cmd[c].run
    BY <1>1, <1>2, CommandFacts DEF CommandOK, Unseen, At
  <1>4. ASSUME NEW o \in registered, vault[o] # Nil,
               cmd' = [cmd EXCEPT ![c].obj = o, ![c].data = vault[o],
                    ![c].step = IF path.kind = "link" THEN "stage" ELSE "remove"],
               UNCHANGED <<mounted, reported>>
        PROVE  IInv'
    <2>1. PICK s \in {"stage", "remove"} :
            s = IF path.kind = "link" THEN "stage" ELSE "remove"
      OBVIOUS
    <2>2. PICK r : r = [cmd[c] EXCEPT !.obj = o, !.data = vault[o], !.step = s]
      OBVIOUS
    <2>3. o \in Objects /\ vault[o] \in Versions /\ vault[o] <= version
      BY <1>4 DEF IInv, TypeOK, Bounds
    <2>4. /\ r \in CommandState /\ r.step = s /\ r.mode = cmd[c].mode
          /\ r.obj = o /\ r.run = cmd[c].run /\ r.data = vault[o]
      BY <1>3, <2>1, <2>2, <2>3 DEF CommandState, Steps
    <2>5. cmd' = [cmd EXCEPT ![c] = r]
      BY <1>4, <2>1, <2>2
    <2>6. /\ cmd' \in [Commands -> CommandState] /\ cmd'[c] = r
          /\ \A d \in Commands : d # c => cmd'[d] = cmd[d]
      BY <2>4, <2>5, CommandMoves
    <2>7. TypeOK'
      BY <1>1, <1>4, <2>6 DEF IInv, TypeOK
    <2>8. Knows(c)' /\ KeepsApart(c) /\ ~At(c, Staging)'
      BY <1>1, <1>2, <1>3, <1>4, <2>1, <2>3, <2>4, <2>6
         DEF Knows, CommandOK, Unseen, TargetOK, KeepsApart, At, Reading, Written,
             Offline, Staging, HasObject
    <2> QED
      BY <1>1, <1>2, <1>3, <1>4, <2>3, <2>4, <2>6, <2>7, <2>8, QuietStep
  <1>5. CASE EndUnprotect(c)
    <2>1. TypeOK' /\ Returns(c)
      BY <1>1, <1>5, ReturnsIs DEF IInv, TypeOK, EndUnprotect
    <2> QED
      BY <1>1, <1>2, <2>1, QuietEnd
  <1> QED
    BY <1>4, <1>5 DEF DecryptFile

(* The plaintext is made in the private directory, by this run.            *)
LEMMA StagePlaintextKeeps ==
    ASSUME IInv, NEW c \in Commands, StagePlaintext(c)
    PROVE  IInv'
  <1>1. /\ cmd[c].step = "stage"
        /\ UNCHANGED <<version, latest, begun, path, leftover, vault,
                       registered, blind>>
    BY DEF StagePlaintext, Working, Store
  <1>2. ~At(c, Staging) /\ ~At(c, {"idle"}) /\ At(c, Offline) /\ ~PutsBack(c)
    BY <1>1 DEF At, Staging, Offline, PutsBack
  <1>3. /\ cmd[c] \in CommandState /\ cmd[c].run > 0 /\ begun \in Nat
        /\ cmd[c].run \in Runs /\ cmd[c].data \in Versions /\ cmd[c].data <= version
        /\ staged[c] = None /\ cmd[c].mode = "unprotect" /\ ~mounted
        /\ cmd[c].obj \in Objects /\ vault[cmd[c].obj] = cmd[c].data
        /\ path.by # cmd[c].run /\ reported = Nil
        /\ \A d \in Commands \ {c} : staged[d].by # cmd[c].run
    BY <1>1, <1>2, CommandFacts, Unreported DEF CommandOK, Unseen, At, HasObject
  <1>4. CASE /\ staged' = [staged EXCEPT ![c] = File(cmd[c].data, cmd[c].run)]
             /\ GoTo(c, "install") /\ UNCHANGED <<mounted, reported, faults>>
    <2>1. /\ cmd' \in [Commands -> CommandState]
          /\ cmd'[c].step = "install" /\ cmd'[c].mode = cmd[c].mode
          /\ cmd'[c].run = cmd[c].run /\ cmd'[c].obj = cmd[c].obj
          /\ cmd'[c].data = cmd[c].data
          /\ \A d \in Commands : d # c => cmd'[d] = cmd[d]
      BY <1>4, GoToIs DEF Steps
    <2>2. /\ staged' \in [Commands -> Entries]
          /\ staged'[c] = File(cmd[c].data, cmd[c].run) /\ staged'[c] # None
          /\ \A d \in Commands : d # c => staged'[d] = staged[d]
      BY <1>3, <1>4, EntryTypes, EntryFields DEF IInv, TypeOK
    <2>3. TypeOK'
      BY <1>1, <1>4, <2>1, <2>2 DEF IInv, TypeOK
    <2>4. Frame(c)
      BY <1>1, <1>3, <1>4, <2>1, <2>2, LeavesOthersIs
         DEF Frame, MovesEntries, Stock, ChangesVault
    <2>5. KeepsNamed
      BY <1>1 DEF KeepsNamed
    <2>6. Knows(c)' /\ KeepsApart(c)
      <3>1. CommandOK(c)'
        BY <1>1, <1>3, <1>4, <2>1, <2>2
           DEF CommandOK, At, Reading, Offline, Staging, HasObject, File
      <3>2. Unseen(c)' /\ TargetOK(c)' /\ KeepsApart(c)
        BY <1>1, <1>2, <1>3, <2>1, <2>2
           DEF Unseen, TargetOK, KeepsApart, At, Reading, Written, Offline
      <3> QED
        BY <3>1, <3>2 DEF Knows
    <2>7. Kept'
      BY <1>1, <1>2, <2>1, <2>4, <2>5, KeptFrame DEF Frame
    <2> QED
      BY <1>1, <1>3, <1>4, <2>1, <2>3, <2>4, <2>6, <2>7, StepFrame DEF ReportOK
  <1>5. CASE Fault /\ EndUnprotect(c) /\ UNCHANGED staged
    <2>1. TypeOK' /\ Returns(c)
      BY <1>1, <1>5, ReturnsIs, FaultType DEF IInv, TypeOK, EndUnprotect
    <2> QED
      BY <1>1, <1>2, <1>5, <2>1, QuietEnd
  <1> QED
    BY <1>4, <1>5 DEF StagePlaintext

(* A command ends after it has changed its object: blind notes whether     *)
(* another command or a link still needed that.                            *)
LEMMA ObjectEnd ==
    ASSUME IInv, NEW c \in Commands, TypeOK', Returns(c), ~At(c, {"idle"}),
           ~At(c, Staging), NEW v \in {Empty, Nil},
           UNCHANGED <<path, staged, leftover, version, latest, begun>>,
           mounted \/ At(c, Offline), mounted' => mounted \/ At(c, Offline),
           vault' = [vault EXCEPT ![cmd[c].obj] = v], cmd[c].obj \in Objects,
           ~blind' => ~blind /\ ~Shared(c) /\ ~Named(cmd[c].obj)
    PROVE  IInv'
  <1>1. /\ cmd'[c] = Idle /\ reported' = reported
        /\ \A d \in Commands : d # c => cmd'[d] = cmd[d]
    BY ReturnsIs
  <1>2. staged'[c] = None /\ ~PutsBack(c) /\ begun' \in Nat /\ begun' >= begun
        /\ 0 <= version
    BY CommandFacts DEF CommandOK, PutsBack, At, Staging
  <1>3. /\ vault'[cmd[c].obj] = v
        /\ \A o \in Objects : o # cmd[c].obj => vault'[o] = vault[o]
    BY DEF IInv, TypeOK
  <1>4. ~blind' => \A d \in Commands \ {c} : cmd[d].obj # cmd[c].obj
    BY DEF Shared
  <1>5. Frame(c)
    <2>1. ChangesVault(c)
      BY <1>2, <1>3, <1>4 DEF ChangesVault, Empty
    <2> QED
      BY <1>1, <1>2, <2>1, LeavesOthersIs DEF Frame, MovesEntries, Stock
  <1>6. KeepsNamed
    BY <1>3 DEF KeepsNamed
  <1> QED
    BY <1>1, <1>2, <1>5, <1>6, EndFrame

(* The deferred removal of a target.                                       *)
LEMMA UndoTargetKeeps ==
    ASSUME IInv, NEW c \in Commands, UndoTarget(c)
    PROVE  IInv'
  <1>1. /\ cmd[c].step = "undo" /\ Returns(c)
        /\ UNCHANGED <<version, latest, begun, path, staged, leftover, mounted>>
    BY DEF UndoTarget, Working, Disk
  <1>2. /\ ~At(c, Staging) /\ ~At(c, {"idle"}) /\ cmd[c].obj \in Objects
    BY <1>1, CommandFacts DEF CommandOK, At, Staging, HasObject
  <1>3. CASE /\ mounted /\ vault' = [vault EXCEPT ![cmd[c].obj] = Nil]
             /\ registered' = registered \ {cmd[c].obj}
             /\ blind' = (blind \/ Shared(c) \/ Named(cmd[c].obj)
                              \/ vault[cmd[c].obj] \notin {cmd[c].data, Empty})
             /\ UNCHANGED faults
    <2>1. TypeOK'
      BY <1>1, <1>3, ReturnsIs DEF IInv, TypeOK
    <2>2. ~blind' => ~blind /\ ~Shared(c) /\ ~Named(cmd[c].obj)
      BY <1>3
    <2> QED
      BY <1>1, <1>2, <1>3, <2>1, <2>2, ObjectEnd
  <1>4. CASE (Fault \/ UNCHANGED faults) /\ UNCHANGED <<vault, registered, blind>>
    <2>1. TypeOK'
      BY <1>1, <1>4, ReturnsIs, FaultType DEF IInv, TypeOK
    <2> QED
      BY <1>1, <1>2, <1>4, <2>1, QuietEnd
  <1> QED
    BY <1>3, <1>4 DEF UndoTarget

(* The removal that ends an unprotect.                                     *)
LEMMA RemoveCiphertextKeeps ==
    ASSUME IInv, NEW c \in Commands, RemoveCiphertext(c)
    PROVE  IInv'
  <1>1. /\ cmd[c].step = "remove" /\ Returns(c) /\ mounted' = TRUE
        /\ UNCHANGED <<version, latest, begun, path, staged, leftover>>
    BY DEF RemoveCiphertext, Working, Disk, EndUnprotect
  <1>2. /\ ~At(c, Staging) /\ ~At(c, {"idle"}) /\ cmd[c].obj \in Objects
        /\ At(c, Offline)
    BY <1>1, CommandFacts DEF CommandOK, At, Staging, HasObject, Offline
  <1>3. CASE /\ vault' = [vault EXCEPT ![cmd[c].obj] = Nil]
             /\ registered' = registered \ {cmd[c].obj}
             /\ blind' = (blind \/ Shared(c) \/ Named(cmd[c].obj))
             /\ UNCHANGED faults
    <2>1. TypeOK'
      BY <1>1, <1>3, ReturnsIs DEF IInv, TypeOK
    <2>2. ~blind' => ~blind /\ ~Shared(c) /\ ~Named(cmd[c].obj)
      BY <1>3
    <2> QED
      BY <1>1, <1>2, <1>3, <2>1, <2>2, ObjectEnd
  <1>4. CASE Fault /\ UNCHANGED <<vault, registered, blind>>
    <2>1. TypeOK'
      BY <1>1, <1>4, ReturnsIs, FaultType DEF IInv, TypeOK
    <2> QED
      BY <1>1, <1>2, <1>4, <2>1, QuietEnd
  <1> QED
    BY <1>3, <1>4 DEF RemoveCiphertext

(* A command dies.  What it had put aside is left where it is.             *)
LEMMA CrashKeeps ==
    ASSUME IInv, NEW c \in Commands, Crash(c)
    PROVE  IInv'
  <1>1. /\ Returns(c) /\ Fault /\ ~At(c, {"idle"})
        /\ leftover' = leftover \cup ({staged[c]} \ {None})
        /\ staged' = [staged EXCEPT ![c] = None]
        /\ UNCHANGED <<path, registered, version, latest, begun>>
        /\ mounted' = (mounted \/ cmd[c].mode = "unprotect")
        /\ blind' = (blind \/ (vault' # vault /\ (Shared(c) \/ Named(cmd[c].obj))))
    BY DEF Crash, At
  <1>2. /\ cmd' \in [Commands -> CommandState] /\ cmd'[c] = Idle
        /\ \A d \in Commands : d # c => cmd'[d] = cmd[d]
        /\ reported' = reported
    BY <1>1, ReturnsIs
  <1>3. /\ staged' \in [Commands -> Entries] /\ staged'[c] = None
        /\ \A d \in Commands : d # c => staged'[d] = staged[d]
        /\ staged[c] \in Entries /\ leftover' \subseteq Entries
    BY <1>1, EntryTypes DEF IInv, TypeOK
  <1>4. /\ PutsBack(c) => staged[c] # None
        /\ mounted' => mounted \/ At(c, Offline)
        /\ begun' \in Nat /\ begun' >= begun
    <2>1. mounted' => mounted \/ cmd[c].mode = "unprotect"
      BY <1>1
    <2>2. begun' = begun
      BY <1>1
    <2> QED
      BY <2>1, <2>2, CommandFacts DEF CommandOK, PutsBack, At, Staging
  <1>5. CASE UNCHANGED vault
    <2>1. blind' = blind
      <3>1. blind \in BOOLEAN /\ vault' = vault
        BY <1>5 DEF IInv, TypeOK
      <3> QED
        BY <1>1, <3>1
    <2>2. TypeOK'
      BY <1>1, <1>2, <1>3, <1>5, <2>1, FaultType DEF IInv, TypeOK
    <2>3. Frame(c)
      BY <1>1, <1>2, <1>3, <1>4, <1>5, <2>1, LeavesOthersIs
         DEF Frame, MovesEntries, Stock, ChangesVault
    <2>4. KeepsNamed
      BY <1>5 DEF KeepsNamed
    <2> QED
      BY <1>1, <1>2, <1>3, <1>4, <2>2, <2>3, <2>4, EndFrame
  <1>6. CASE /\ cmd[c].step = "write" /\ mounted /\ vault' # vault
             /\ vault' = [vault EXCEPT ![cmd[c].obj] = Empty]
    <2>1. ~blind' => ~blind /\ ~Shared(c) /\ ~Named(cmd[c].obj)
      BY <1>1, <1>6
    <2>2. /\ cmd[c].obj \in Objects /\ ~At(c, Staging) /\ staged[c] = None
      BY <1>6, CommandFacts DEF CommandOK, At, HasObject, Staging
    <2>3. leftover' = leftover /\ staged' = staged
      BY <1>1, <2>2 DEF IInv, TypeOK
    <2>4. TypeOK'
      <3>1. vault' \in [Objects -> Versions \cup {Nil}]
        BY <1>6, ProjectFileAssumption DEF IInv, TypeOK, Versions, Empty
      <3> QED
        BY <1>1, <1>2, <1>3, <3>1, FaultType DEF IInv, TypeOK
    <2> QED
      BY <1>1, <1>4, <1>6, <2>1, <2>2, <2>3, <2>4, ObjectEnd
  <1> QED
    BY <1>5, <1>6 DEF Crash

-----------------------------------------------------------------------------
(* The user.                                                               *)

(* Every running command is touched, and nothing else about it changes.    *)
LEMMA UserActsIs ==
    ASSUME IInv, UserActs
    PROVE  /\ cmd' \in [Commands -> CommandState]
           /\ \A c \in Commands :
                /\ cmd'[c].step = cmd[c].step /\ cmd'[c].mode = cmd[c].mode
                /\ cmd'[c].run = cmd[c].run /\ cmd'[c].obj = cmd[c].obj
                /\ cmd'[c].data = cmd[c].data /\ cmd'[c].seen = cmd[c].seen
                /\ ~At(c, {"idle"}) => cmd'[c].touched
                /\ At(c, {"idle"}) => cmd'[c] = Idle
           /\ reported' = Nil
           /\ UNCHANGED <<staged, leftover, registered, mounted, blind, begun, faults>>
  <1>1. ASSUME NEW c \in Commands
        PROVE  /\ cmd'[c] \in CommandState
               /\ cmd'[c].step = cmd[c].step /\ cmd'[c].mode = cmd[c].mode
               /\ cmd'[c].run = cmd[c].run /\ cmd'[c].obj = cmd[c].obj
               /\ cmd'[c].data = cmd[c].data /\ cmd'[c].seen = cmd[c].seen
               /\ ~At(c, {"idle"}) => cmd'[c].touched
               /\ At(c, {"idle"}) => cmd'[c] = Idle
    <2>1. cmd[c] \in CommandState /\ (At(c, {"idle"}) => cmd[c] = Idle)
      BY CommandFacts DEF CommandOK
    <2>2. cmd'[c] = [cmd[c] EXCEPT !.touched = (cmd[c].step # "idle")]
      BY DEF UserActs
    <2>3. \A r \in CommandState : [r EXCEPT !.touched = r.touched] = r
      BY DEF CommandState
    <2>4. At(c, {"idle"}) => (cmd[c].step # "idle") = Idle.touched
      BY IdleState DEF At
    <2>5. At(c, {"idle"}) => cmd'[c] = Idle
      BY <2>1, <2>2, <2>3, <2>4, IdleState
    <2>6. ~At(c, {"idle"}) => cmd'[c].touched
      BY <2>1, <2>2 DEF CommandState, At
    <2> QED
      BY <2>1, <2>2, <2>5, <2>6 DEF CommandState
  <1>2. cmd' \in [Commands -> CommandState]
    BY <1>1 DEF UserActs
  <1> QED
    BY <1>1, <1>2 DEF UserActs

(* What the user does keeps the rest of the invariant: no command has read *)
(* what is saved now, and every one that runs is touched.                  *)
LEMMA UserFrame ==
    ASSUME IInv, UserActs, TypeOK',
           \/ version' = version /\ latest' = 0
           \/ version' = version + 1 /\ latest' = version + 1,
           Lasts(path)', path'.by \in {Nil, User, path.by},
           path' = None => latest' = 0,
           vault' # vault => mounted,
           \A o \in Objects : vault'[o] \in {vault[o], version'},
           Kept'
    PROVE  IInv'
  <1>1. /\ \A c \in Commands :
             /\ cmd'[c].step = cmd[c].step /\ cmd'[c].mode = cmd[c].mode
             /\ cmd'[c].run = cmd[c].run /\ cmd'[c].obj = cmd[c].obj
             /\ cmd'[c].data = cmd[c].data /\ cmd'[c].seen = cmd[c].seen
             /\ ~At(c, {"idle"}) => cmd'[c].touched
             /\ At(c, {"idle"}) => cmd'[c] = Idle
        /\ reported' = Nil
        /\ UNCHANGED <<staged, leftover, registered, mounted, blind, begun, faults>>
    BY UserActsIs
  <1>2. TypeOK /\ Bounds /\ version \in Nat /\ begun \in Nat /\ latest \in Nat
        /\ version' \in Nat /\ version <= version' /\ latest' <= version'
    BY ProjectFileAssumption DEF IInv, TypeOK, Versions
  <1>3. Bounds'
    <2>1. \A e \in Entries : Lasts(e) => Lasts(e)'
      BY <1>1, <1>2, EntryKinds, ProjectFileAssumption DEF Lasts, Versions
    <2>2. \A c \in Commands : Lasts(staged[c])'
      <3>1. ASSUME NEW c \in Commands PROVE Lasts(staged[c])'
        <4>1. PICK e \in Entries : e = staged[c]
          BY <1>2 DEF TypeOK
        <4> QED
          BY <1>1, <1>2, <2>1, <4>1 DEF Bounds, Lasts
      <3> QED
        BY <3>1
    <2>3. \A e \in leftover' : Lasts(e)'
      BY <1>1, <1>2, <2>1 DEF Bounds, TypeOK
    <2>4. \A c \in Commands : cmd'[c].data <= version' /\ cmd'[c].run <= begun'
      BY <1>1, <1>2, CommandFacts, ProjectFileAssumption DEF Bounds, Versions
    <2>5. \A o \in Objects : vault'[o] # Nil => vault'[o] <= version'
      BY <1>2, ProjectFileAssumption DEF Bounds, TypeOK, Versions
    <2> QED
      BY <1>2, <2>2, <2>3, <2>4, <2>5 DEF Bounds
  <1>4. ASSUME NEW c \in Commands
        PROVE  (CommandOK(c) /\ Unseen(c) /\ TargetOK(c))'
    <2>1. /\ CommandOK(c) /\ Unseen(c) /\ cmd[c].run # Nil /\ cmd[c].data \in Nat
          /\ cmd[c].data <= version
      BY CommandFacts, ProjectFileAssumption DEF Versions
    <2>2. CommandOK(c)'
      <3>1. At(c, Offline) => vault' = vault
        BY <2>1 DEF CommandOK
      <3>2. At(c, {"stage", "install", "check", "remove"}) => At(c, Offline)
        BY DEF At, Offline
      <3> QED
        BY <1>1, <2>1, <3>1, <3>2 DEF CommandOK, At
    <2>3. Unseen(c)'
      BY <1>1, <2>1 DEF Unseen, CommandOK, At, User
    <2>4. TargetOK(c)'
      <3>1. latest' # 0 => cmd'[c].data # latest'
        BY <1>1, <1>2, <2>1
      <3>2. At(c, Written \cup {"register"})' => cmd'[c].touched
        BY <1>1 DEF At, Written
      <3> QED
        BY <3>1, <3>2 DEF TargetOK
    <2> QED
      BY <2>2, <2>3, <2>4
  <1>5. Apart'
    BY <1>1 DEF IInv, Apart, At
  <1>6. SeenBefore'
    BY <1>1 DEF IInv, SeenBefore, At
  <1>7. PathGone' /\ ReportOK'
    BY <1>1 DEF PathGone, ReportOK
  <1> QED
    BY <1>3, <1>4, <1>5, <1>6, <1>7 DEF IInv

(* No command can be about to withdraw what was saved only now.            *)
LEMMA NewIsKept ==
    ASSUME IInv, UserActs, version' = version + 1, latest' = version + 1, Saved(path)'
    PROVE  Kept'
  <1>1. \A c \in Commands : cmd'[c].data # latest'
    BY UserActsIs, CommandFacts, ProjectFileAssumption DEF Versions
  <1>2. ~Withdrawn(path)'
    BY <1>1 DEF Withdrawn
  <1> QED
    BY <1>2 DEF Kept, Keeps

(* A new file takes the path.                                              *)
LEMMA UserSaveKeeps ==
    ASSUME IInv, UserSave
    PROVE  IInv'
  <1>1. /\ UserActs /\ version' = version + 1 /\ latest' = version + 1
        /\ path' = File(version + 1, User) /\ vault' = vault /\ version < MaxVersion
    BY DEF UserSave, NewVersion
  <1>2. version + 1 \in Versions /\ User \in Runs /\ begun \in Nat /\ version \in Nat
    BY <1>1, ProjectFileAssumption DEF IInv, TypeOK, Versions, Runs, User
  <1>3. TypeOK'
    BY <1>1, <1>2, UserActsIs, EntryTypes, ProjectFileAssumption DEF IInv, TypeOK
  <1>4. /\ path'.kind = "file" /\ path'.version = version' /\ path'.by = 0
        /\ path'.by = User /\ path' # None
    BY <1>1, EntryFields DEF User
  <1>5. Lasts(path)'
    BY <1>1, <1>2, <1>4, UserActsIs DEF Lasts
  <1>6. Kept'
    BY <1>1, <1>4, NewIsKept DEF Saved
  <1> QED
    BY <1>1, <1>3, <1>4, <1>5, <1>6, UserFrame

(* The file is written in place, or the object through the link.           *)
LEMMA UserWriteKeeps ==
    ASSUME IInv, UserWrite
    PROVE  IInv'
  <1>1. /\ UserActs /\ version' = version + 1 /\ latest' = version + 1
        /\ version < MaxVersion
    BY DEF UserWrite, NewVersion
  <1>2. version + 1 \in Versions /\ begun \in Nat /\ version \in Nat
        /\ path \in Entries /\ begun' = begun
    BY <1>1, UserActsIs, ProjectFileAssumption DEF IInv, TypeOK, Versions, Runs, User
  <1>3. CASE /\ path.kind = "file" /\ path' = [path EXCEPT !.version = version + 1]
             /\ UNCHANGED vault
    <2>1. path = File(path.version, path.by) /\ path.by \in Runs
      BY <1>2, <1>3, EntryKinds
    <2>2. path' = File(version + 1, path.by)
      BY <1>3, <2>1 DEF File
    <2>3. /\ path' \in Entries /\ path'.kind = "file" /\ path'.version = version'
          /\ path'.by = path.by /\ path' # None
      BY <1>1, <1>2, <2>1, <2>2, EntryTypes, EntryFields
    <2>4. TypeOK'
      BY <1>1, <1>2, <1>3, <2>3, UserActsIs DEF IInv, TypeOK
    <2>5. Lasts(path)'
      BY <1>1, <1>2, <1>3, <2>3 DEF Lasts, IInv, Bounds
    <2>6. Kept'
      BY <1>1, <2>3, NewIsKept DEF Saved
    <2> QED
      BY <1>1, <1>3, <2>3, <2>4, <2>5, <2>6, UserFrame
  <1>4. CASE /\ path.kind = "link" /\ mounted
             /\ vault' = [vault EXCEPT ![path.obj] = version + 1]
             /\ UNCHANGED path
    <2>1. path.obj \in Objects /\ path' # None
      BY <1>2, <1>4, EntryKinds
    <2>2. /\ vault' \in [Objects -> Versions \cup {Nil}]
          /\ vault'[path.obj] = version' /\ path'.obj = path.obj
          /\ \A o \in Objects : vault'[o] \in {vault[o], version'}
      BY <1>1, <1>2, <1>4, <2>1 DEF IInv, TypeOK
    <2>3. TypeOK'
      BY <1>1, <1>2, <1>4, <2>2, UserActsIs DEF IInv, TypeOK
    <2>4. Lasts(path)' /\ path'.by = path.by
      BY <1>1, <1>2, <1>4, EntryKinds DEF Lasts
    <2>5. Kept'
      BY <1>1, <1>4, <2>2, NewIsKept DEF Saved
    <2> QED
      BY <1>1, <1>4, <2>1, <2>2, <2>3, <2>4, <2>5, UserFrame
  <1> QED
    BY <1>3, <1>4 DEF UserWrite

(* The path is deleted: nothing is left to keep.                           *)
LEMMA UserDeleteKeeps ==
    ASSUME IInv, UserDelete
    PROVE  IInv'
  <1>1. /\ UserActs /\ version' = version /\ latest' = 0 /\ path' = None
        /\ vault' = vault
    BY DEF UserDelete
  <1>2. TypeOK'
    BY <1>1, UserActsIs, EntryTypes, ProjectFileAssumption DEF IInv, TypeOK, Versions
  <1>3. Lasts(path)' /\ path'.by = Nil
    BY <1>1, EntryFields, ProjectFileAssumption DEF Lasts, IInv, TypeOK, Versions
  <1>4. Kept'
    BY <1>1 DEF Kept
  <1> QED
    BY <1>1, <1>2, <1>3, <1>4, UserFrame

-----------------------------------------------------------------------------
(* The exchanges.                                                          *)

Held ==
    \/ Keeps(path)
    \/ \E d \in Commands : PutsBack(d) /\ Keeps(staged[d])
    \/ \E e \in leftover : Saved(e)

(* The entry that c will withdraw.                                         *)
Installed(c) ==
    IF At(c, {"check"}) THEN File(cmd[c].data, cmd[c].run) ELSE Link(cmd[c].obj)

(* A step of c that leaves the vault alone: a copy that another command    *)
(* will put back still counts unless c is the one to withdraw it, so that  *)
(* the copies at the path and in c's own hands are what has to be shown.   *)
LEMMA KeptElsewhere ==
    ASSUME IInv, NEW c \in Commands, LeavesOthers(c), UNCHANGED <<vault, latest>>,
           blind => blind', leftover \subseteq leftover',
           ASSUME ~blind', latest # 0, PutsBack(c)', cmd'[c].data = latest,
                  NEW d \in Commands \ {c}, PutsBack(d), Keeps(staged[d])
           PROVE  staged[d] # Installed(c)',
           ASSUME ~blind', latest # 0, Keeps(path) PROVE Held',
           ASSUME ~blind', latest # 0, PutsBack(c), Keeps(staged[c]) PROVE Held'
    PROVE  Kept'
  <1> SUFFICES ASSUME latest # 0, ~blind' PROVE Held'
    BY DEF Kept, Held
  <1>1. \A e : Saved(e) => Saved(e)'
    BY DEF Saved
  <1>2. ASSUME NEW d \in Commands \ {c}, PutsBack(d), Keeps(staged[d]) PROVE Held'
    <2>1. PICK e : e = staged[d]
      OBVIOUS
    <2>2. /\ e # Installed(c)' \/ ~(PutsBack(c)' /\ cmd'[c].data = latest)
          /\ Saved(e)' /\ ~Withdrawn(e)
      BY <1>1, <1>2, <2>1 DEF Keeps
    <2>3. PutsBack(d)' /\ staged'[d] = e
      BY <1>2, <2>1, OthersPutBack DEF LeavesOthers
    <2>4. ~Withdrawn(e)'
      BY <2>2, OthersPutBack DEF Installed
    <2>5. Keeps(staged[d])'
      BY <2>2, <2>3, <2>4 DEF Keeps, Saved, Withdrawn
    <2> QED
      BY <2>3, <2>5 DEF Held
  <1>3. ASSUME NEW e \in leftover, Saved(e) PROVE Held'
    BY <1>1, <1>3 DEF Held
  <1> QED
    BY <1>2, <1>3 DEF IInv, Kept

(* No other command withdraws the link that c has installed or will.       *)
LEMMA OwnLink ==
    ASSUME IInv, ~blind, NEW c \in Commands, At(c, Written), ~PutsBack(c)
    PROVE  ~Withdrawn(Link(cmd[c].obj))
  <1> SUFFICES ASSUME NEW d \in Commands, PutsBack(d),
                      Link(cmd[c].obj) = Installed(d)
               PROVE  FALSE
    BY DEF Withdrawn, Installed
  <1>1. ~At(d, {"check"}) /\ cmd[d].obj = cmd[c].obj
    BY EntryFields DEF Installed
  <1>2. At(d, Written) /\ d # c
    BY <1>1 DEF PutsBack, At, Written
  <1> QED
    BY <1>1, <1>2 DEF IInv, Apart

(* An entry stays saved and is not withdrawn.                              *)
LEMMA StillKeeps ==
    ASSUME NEW c \in Commands, LeavesOthers(c), UNCHANGED <<vault, latest>>,
           NEW e, Saved(e), ~Withdrawn(e),
           PutsBack(c)' /\ cmd'[c].data = latest => e # Installed(c)'
    PROVE  Saved(e)' /\ ~Withdrawn(e)'
  BY OthersPutBack DEF Saved, Installed

(* The link and what the path names change places.  When that is the file  *)
(* that was read, the object holds it and the link counts instead; when    *)
(* not, c will put it back.                                                *)
LEMMA ExchangeKeeps ==
    ASSUME IInv, NEW c \in Commands, Exchange(c)
    PROVE  IInv'
  <1>1. /\ cmd[c].step = "exchange"
        /\ UNCHANGED <<version, latest, begun, leftover, vault, registered,
                       mounted, blind, faults>>
    BY DEF Exchange, Working, Store
  <1>2. /\ ~At(c, {"idle"}) /\ ~At(c, Offline) /\ ~PutsBack(c) /\ At(c, Written)
        /\ At(c, Reading)
    BY <1>1 DEF At, Offline, PutsBack, Written, Reading
  <1>3. /\ cmd[c].run > 0 /\ begun \in Nat /\ cmd[c].data <= version
        /\ cmd[c].mode # "unprotect" /\ cmd[c].obj \in Objects
        /\ cmd[c].seen.kind = "file" /\ cmd[c].seen.version = cmd[c].data
        /\ path \in Entries /\ reported = Nil /\ TargetOK(c)
    BY <1>1, <1>2, CommandFacts, Unreported DEF CommandOK, At, HasObject
  <1>4. CASE /\ path.kind # "none"
             /\ staged' = [staged EXCEPT ![c] = path]
             /\ path' = Link(cmd[c].obj)
             /\ GoTo(c, "validate") /\ UNCHANGED reported
    <2>1. /\ cmd' \in [Commands -> CommandState]
          /\ cmd'[c].step = "validate" /\ cmd'[c].mode = cmd[c].mode
          /\ cmd'[c].run = cmd[c].run /\ cmd'[c].obj = cmd[c].obj
          /\ cmd'[c].data = cmd[c].data /\ cmd'[c].seen = cmd[c].seen
          /\ cmd'[c].touched = cmd[c].touched
          /\ \A d \in Commands : d # c => cmd'[d] = cmd[d]
      BY <1>4, GoToIs DEF Steps
    <2>2. /\ staged' \in [Commands -> Entries]
          /\ staged'[c] = path /\ staged'[c] # None
          /\ \A d \in Commands : d # c => staged'[d] = staged[d]
      BY <1>3, <1>4, EntryFields DEF IInv, TypeOK
    <2>3. path' \in Entries /\ path' # None /\ cmd[c].obj \in Linked(c)
      BY <1>2, <1>3, <1>4, EntryTypes, EntryFields DEF Linked
    <2>4. TypeOK'
      BY <1>1, <1>4, <2>1, <2>2, <2>3 DEF IInv, TypeOK
    <2>5. LeavesOthers(c)
      BY <2>1, <2>2, LeavesOthersIs
    <2>6. Frame(c)
      BY <1>1, <1>3, <1>4, <2>2, <2>3, <2>5
         DEF Frame, MovesEntries, Stock, ChangesVault
    <2>7. Knows(c)' /\ KeepsApart(c)
      <3>1. CommandOK(c)' /\ Unseen(c)'
        BY <1>1, <1>3, <2>1, <2>2
           DEF CommandOK, Unseen, At, Reading, Offline, Staging, HasObject
      <3>2. TargetOK(c)'
        BY <1>1, <1>2, <1>3, <2>1 DEF TargetOK, At, Written
      <3>3. KeepsApart(c)
        BY <1>2, <2>1 DEF KeepsApart, At, Offline
      <3> QED
        BY <3>1, <3>2, <3>3 DEF Knows
    <2>8. Installed(c)' = Link(cmd[c].obj)
      BY <2>1 DEF Installed, At
    <2>9. ASSUME ~blind, latest # 0, cmd[c].data = latest
          PROVE  vault[cmd[c].obj] = latest /\ ~Named(cmd[c].obj)
      BY <1>1, <1>2, <1>3, <2>9 DEF TargetOK, At
    <2>10. ASSUME ~blind', latest # 0, cmd'[c].data = latest, NEW d \in Commands \ {c}
           PROVE  staged[d] # Installed(c)'
      BY <1>1, <2>1, <2>8, <2>9, <2>10 DEF Named
    <2>11. ASSUME ~blind', latest # 0, Keeps(path) PROVE Held'
      <3>1. CASE path = cmd[c].seen
        <4>1. ~PutsBack(c)'
          BY <2>1, <2>2, <3>1 DEF PutsBack, Drops, At
        <4>2. cmd[c].data = latest
          BY <1>3, <2>11, <3>1 DEF Keeps, Saved
        <4>3. Saved(Link(cmd[c].obj))
          BY <1>1, <2>9, <2>11, <4>2, EntryFields DEF Saved
        <4>4. ~Withdrawn(Link(cmd[c].obj))
          BY <1>1, <1>2, <2>11, OwnLink
        <4>5. Keeps(path)'
          <5>1. PICK e : e = Link(cmd[c].obj)
            OBVIOUS
          <5>2. Saved(e)' /\ ~Withdrawn(e)'
            BY <1>1, <2>5, <4>1, <4>3, <4>4, <5>1, StillKeeps
          <5> QED
            BY <1>4, <5>1, <5>2 DEF Keeps, Saved, Withdrawn
        <4> QED
          BY <4>5 DEF Held
      <3>2. CASE path # cmd[c].seen
        <4>1. PutsBack(c)'
          BY <2>1, <2>2, <3>2 DEF PutsBack, Drops, At
        <4>2. PICK e : e = path
          OBVIOUS
        <4>3. cmd'[c].data = latest => e # Installed(c)'
          BY <1>1, <2>1, <2>8, <2>9, <2>11, <4>2 DEF Named
        <4>4. Saved(e)' /\ ~Withdrawn(e)'
          BY <1>1, <2>5, <2>11, <4>2, <4>3, StillKeeps DEF Keeps
        <4>5. Keeps(staged[c])'
          BY <2>2, <4>2, <4>4 DEF Keeps, Saved, Withdrawn
        <4> QED
          BY <4>1, <4>5 DEF Held
      <3> QED
        BY <3>1, <3>2
    <2>12. Kept'
      BY <1>1, <1>2, <2>5, <2>10, <2>11, KeptElsewhere
    <2> QED
      BY <1>1, <1>3, <1>4, <2>1, <2>3, <2>4, <2>6, <2>7, <2>12, StepFrame DEF ReportOK
  <1>5. CASE GivesUp(c) /\ UNCHANGED <<path, staged>>
    BY <1>1, <1>5, QuietGivesUp DEF At
  <1> QED
    BY <1>4, <1>5 DEF Exchange

(* The file that was read is removed, or whatever was displaced is to go   *)
(* back; the file that was read counts again if its removal failed.        *)
LEMMA ValidateDisplacedKeeps ==
    ASSUME IInv, NEW c \in Commands, ValidateDisplaced(c)
    PROVE  IInv'
  <1>1. /\ cmd[c].step = "validate"
        /\ UNCHANGED <<version, latest, begun, path, leftover, vault, registered,
                       mounted, blind>>
        /\ Fault \/ UNCHANGED faults
    BY DEF ValidateDisplaced, Working, Store
  <1>2. /\ ~At(c, {"idle"}) /\ ~At(c, Offline) /\ At(c, Written) /\ At(c, Reading)
        /\ At(c, Staging)
    BY <1>1 DEF At, Offline, Written, Reading, Staging
  <1>3. /\ cmd[c].run > 0 /\ begun \in Nat /\ cmd[c].data <= version
        /\ cmd[c].mode # "unprotect" /\ cmd[c].obj \in Objects
        /\ cmd[c].seen.kind = "file" /\ cmd[c].seen.version = cmd[c].data
        /\ cmd[c].seen \in Entries
        /\ path \in Entries /\ reported = Nil /\ TargetOK(c) /\ staged[c] # None
    BY <1>1, <1>2, CommandFacts, Unreported DEF CommandOK, At, HasObject, CommandState
  <1>4. faults' \in 0 .. MaxFaults
    BY <1>1, FaultType
  <1>5. CASE /\ Displaced(c) /\ staged' = [staged EXCEPT ![c] = None]
             /\ (GoTo(c, "register") /\ UNCHANGED reported) \/ Returns(c)
    <2>1. /\ staged' \in [Commands -> Entries] /\ staged'[c] = None
          /\ \A d \in Commands : d # c => staged'[d] = staged[d]
      BY <1>5, EntryTypes DEF IInv, TypeOK
    <2>2. ~PutsBack(c) /\ KeepsNamed
      BY <1>1, <1>5 DEF PutsBack, Drops, Displaced, At, KeepsNamed
    <2>3. CASE GoTo(c, "register") /\ UNCHANGED reported
      <3>1. /\ cmd' \in [Commands -> CommandState]
            /\ cmd'[c].step = "register" /\ cmd'[c].mode = cmd[c].mode
            /\ cmd'[c].run = cmd[c].run /\ cmd'[c].obj = cmd[c].obj
            /\ cmd'[c].data = cmd[c].data /\ cmd'[c].seen = cmd[c].seen
            /\ cmd'[c].touched = cmd[c].touched
            /\ \A d \in Commands : d # c => cmd'[d] = cmd[d]
        BY <2>3, GoToIs DEF Steps
      <3>2. TypeOK'
        BY <1>1, <1>4, <2>1, <2>3, <3>1 DEF IInv, TypeOK
      <3>3. Frame(c)
        BY <1>1, <1>3, <2>1, <3>1, LeavesOthersIs
           DEF Frame, MovesEntries, Stock, ChangesVault
      <3>4. Knows(c)' /\ KeepsApart(c)
        <4>1. CommandOK(c)' /\ Unseen(c)' /\ KeepsApart(c)
          BY <1>2, <1>3, <2>1, <3>1
             DEF CommandOK, Unseen, KeepsApart, At, Reading, Written, Offline,
                 Staging, HasObject
        <4>2. TargetOK(c)'
          BY <1>1, <1>2, <1>3, <3>1 DEF TargetOK, At, Written
        <4> QED
          BY <4>1, <4>2 DEF Knows
      <3>5. Kept'
        BY <1>1, <2>2, <3>1, <3>3, KeptFrame DEF Frame
      <3> QED
        BY <1>1, <1>3, <2>3, <3>1, <3>2, <3>3, <3>4, <3>5, StepFrame DEF ReportOK
    <2>4. CASE Returns(c)
      <3>1. /\ cmd' \in [Commands -> CommandState] /\ cmd'[c] = Idle
            /\ \A d \in Commands : d # c => cmd'[d] = cmd[d]
            /\ reported' = reported
        BY <2>4, ReturnsIs
      <3>2. TypeOK'
        BY <1>1, <1>4, <2>1, <3>1 DEF IInv, TypeOK
      <3>3. Frame(c)
        BY <1>1, <1>3, <2>1, <3>1, LeavesOthersIs
           DEF Frame, MovesEntries, Stock, ChangesVault
      <3> QED
        BY <1>1, <1>2, <2>1, <2>2, <3>1, <3>2, <3>3, EndFrame
    <2> QED
      BY <1>5, <2>3, <2>4
  <1>6. CASE GoTo(c, "rollback") /\ UNCHANGED <<staged, reported>>
    <2>1. /\ cmd' \in [Commands -> CommandState]
          /\ cmd'[c].step = "rollback" /\ cmd'[c].mode = cmd[c].mode
          /\ cmd'[c].run = cmd[c].run /\ cmd'[c].obj = cmd[c].obj
          /\ cmd'[c].data = cmd[c].data /\ cmd'[c].seen = cmd[c].seen
          /\ cmd'[c].touched = cmd[c].touched
          /\ \A d \in Commands : d # c => cmd'[d] = cmd[d]
      BY <1>6, GoToIs DEF Steps
    <2>2. TypeOK'
      BY <1>1, <1>4, <1>6, <2>1 DEF IInv, TypeOK
    <2>3. LeavesOthers(c)
      BY <1>6, <2>1, LeavesOthersIs
    <2>4. Frame(c)
      BY <1>1, <1>3, <1>6, <2>3 DEF Frame, MovesEntries, Stock, ChangesVault
    <2>5. Knows(c)' /\ KeepsApart(c)
      <3>1. CommandOK(c)' /\ Unseen(c)' /\ KeepsApart(c)
        BY <1>2, <1>3, <1>6, <2>1
           DEF CommandOK, Unseen, KeepsApart, At, Reading, Written, Offline,
               Staging, HasObject
      <3>2. TargetOK(c)'
        BY <1>1, <1>2, <1>3, <2>1 DEF TargetOK, At, Written
      <3> QED
        BY <3>1, <3>2 DEF Knows
    <2>6. PutsBack(c)' /\ Installed(c)' = Link(cmd[c].obj)
      BY <2>1 DEF PutsBack, Drops, Installed, At
    <2>7. CASE PutsBack(c) \/ cmd[c].data # latest
      <3>1. \A e : Keeps(e) => Saved(e)' /\ ~Withdrawn(e)'
        <4>1. ASSUME NEW e, Keeps(e), PutsBack(c), cmd[c].data = latest
              PROVE  e # Link(cmd[c].obj)
          BY <1>1, <4>1 DEF Keeps, Withdrawn, At
        <4> QED
          BY <1>1, <2>1, <2>3, <2>6, <2>7, <4>1, StillKeeps DEF Keeps
      <3>2. ASSUME ~blind', latest # 0, PutsBack(c)', cmd'[c].data = latest,
                   NEW d \in Commands \ {c}, PutsBack(d), Keeps(staged[d])
            PROVE  staged[d] # Installed(c)'
        BY <1>1, <2>1, <2>6, <2>7, <3>2 DEF Keeps, Withdrawn, At
      <3>3. ASSUME Keeps(path) PROVE Held'
        <4>1. Keeps(path)'
          BY <1>1, <3>1, <3>3 DEF Keeps, Saved, Withdrawn
        <4> QED
          BY <4>1 DEF Held
      <3>4. ASSUME Keeps(staged[c]) PROVE Held'
        <4>1. Keeps(staged[c])'
          BY <1>6, <3>1, <3>4 DEF Keeps, Saved, Withdrawn
        <4> QED
          BY <2>6, <4>1 DEF Held
      <3>5. Kept'
        BY <1>1, <2>3, <3>2, <3>3, <3>4, KeptElsewhere
      <3> QED
        BY <1>1, <1>3, <1>6, <2>1, <2>2, <2>4, <2>5, <3>5, StepFrame DEF ReportOK
    <2>8. CASE ~PutsBack(c) /\ cmd[c].data = latest
      <3>1. staged[c] = cmd[c].seen /\ staged'[c] = cmd[c].seen
        BY <1>1, <1>6, <2>8 DEF PutsBack, Drops, At
      <3>2. PICK e : e = cmd[c].seen
        OBVIOUS
      <3>3. Saved(e) /\ e # Link(cmd[c].obj)
        BY <1>3, <2>8, <3>2, EntryFields DEF Saved
      <3>4. ~Withdrawn(e)
        <4> SUFFICES ASSUME NEW d \in Commands, PutsBack(d), e = Installed(d)
                     PROVE  FALSE
          BY DEF Withdrawn, Installed
        <4>1. At(d, {"check"}) /\ e.by = cmd[d].run
          BY <1>3, <3>2, EntryFields DEF Installed
        <4>2. At(d, Offline)
          BY <4>1 DEF At, Offline
        <4> QED
          BY <1>2, <3>2, <4>1, <4>2 DEF IInv, SeenBefore
      <3>5. Saved(e)' /\ ~Withdrawn(e)'
        BY <1>1, <2>3, <2>6, <3>3, <3>4, StillKeeps
      <3>6. Keeps(staged[c])'
        BY <3>1, <3>2, <3>5 DEF Keeps, Saved, Withdrawn
      <3>7. Kept'
        BY <2>6, <3>6 DEF Kept
      <3> QED
        BY <1>1, <1>3, <1>6, <2>1, <2>2, <2>4, <2>5, <3>7, StepFrame DEF ReportOK
    <2> QED
      BY <2>7, <2>8
  <1> QED
    BY <1>5, <1>6 DEF ValidateDisplaced

(* The displaced entry goes back.  A link that this takes away and that    *)
(* held the last save was withdrawn already, or blind says so.             *)
LEMMA RollbackKeeps ==
    ASSUME IInv, NEW c \in Commands, Rollback(c)
    PROVE  IInv'
  <1>1. /\ cmd[c].step = "rollback" /\ staged' = [staged EXCEPT ![c] = None]
        /\ UNCHANGED <<version, latest, begun, vault, registered, mounted, faults>>
    BY DEF Rollback, Working, Store
  <1>2. /\ ~At(c, {"idle"}) /\ At(c, Written) /\ At(c, Staging) /\ PutsBack(c)
        /\ ~At(c, {"check"})
    BY <1>1 DEF At, Written, Staging, PutsBack, Drops
  <1>3. /\ begun \in Nat /\ path \in Entries /\ reported = Nil
        /\ staged[c] # None /\ staged[c] \in Entries
    BY <1>2, CommandFacts, Unreported DEF CommandOK
  <1>4. /\ staged' \in [Commands -> Entries] /\ staged'[c] = None
        /\ \A d \in Commands : d # c => staged'[d] = staged[d]
    BY <1>1, EntryTypes DEF IInv, TypeOK
  <1>5. KeepsNamed
    BY <1>1 DEF KeepsNamed
  <1>6. CASE /\ path' = staged[c] /\ GivesUp(c) /\ UNCHANGED leftover
             /\ blind' = (blind \/ path # Link(cmd[c].obj)
                                          \/ vault[cmd[c].obj] # cmd[c].data)
    <2>1. /\ cmd' \in [Commands -> CommandState] /\ reported' = reported
          /\ \A d \in Commands : d # c => cmd'[d] = cmd[d]
          /\ cmd'[c] = Idle \/ cmd'[c].step = "undo"
      BY <1>6, GivesUpIs
    <2>2. /\ blind' \in BOOLEAN
          /\ ~blind' => ~blind /\ path = Link(cmd[c].obj)
                        /\ vault[cmd[c].obj] = cmd[c].data
      BY <1>6
    <2>3. TypeOK'
      BY <1>1, <1>3, <1>4, <1>6, <2>1, <2>2 DEF IInv, TypeOK
    <2>4. Frame(c)
      BY <1>1, <1>3, <1>4, <1>6, <2>1, <2>2, LeavesOthersIs
         DEF Frame, MovesEntries, Stock, ChangesVault
    <2>5. Knows(c)' /\ KeepsApart(c) /\ cmd'[c].data <= version
      <3>1. At(c, Written \cup {"write"})
        BY <1>2 DEF At
      <3> QED
        BY <1>4, <1>6, <3>1, GivenUpKnows
    <2>6. ASSUME ~blind', Keeps(path) PROVE FALSE
      <3>1. cmd[c].data = latest
        BY <2>2, <2>6, EntryFields DEF Keeps, Saved
      <3>2. Withdrawn(path)
        BY <1>2, <2>2, <2>6, <3>1 DEF Withdrawn
      <3> QED
        BY <2>6, <3>2 DEF Keeps
    <2>7. Kept'
      <3>1. cmd'[c].step \notin {"validate", "rollback", "check"}
        BY <2>1, IdleState
      <3> QED
        BY <1>5, <1>6, <2>4, <2>6, <3>1, KeptFrame DEF Frame
    <2>8. path' # None
      BY <1>3, <1>6
    <2> QED
      BY <1>3, <2>1, <2>3, <2>4, <2>5, <2>7, <2>8, StepFrame DEF ReportOK
  <1>7. CASE /\ leftover' = leftover \cup {staged[c]} /\ Returns(c)
             /\ UNCHANGED <<path, blind>>
    <2>1. /\ cmd' \in [Commands -> CommandState] /\ cmd'[c] = Idle
          /\ \A d \in Commands : d # c => cmd'[d] = cmd[d]
          /\ reported' = reported
      BY <1>7, ReturnsIs
    <2>2. TypeOK'
      BY <1>1, <1>3, <1>4, <1>7, <2>1 DEF IInv, TypeOK
    <2>3. Frame(c)
      BY <1>1, <1>3, <1>4, <1>7, <2>1, LeavesOthersIs
         DEF Frame, MovesEntries, Stock, ChangesVault
    <2> QED
      BY <1>1, <1>2, <1>4, <1>5, <1>7, <2>1, <2>2, <2>3, EndFrame
  <1> QED
    BY <1>6, <1>7 DEF Rollback

(* The plaintext takes the path.  When it takes the place of its own link, *)
(* it counts as the link did; when not, c will put back what it displaced. *)
LEMMA InstallPlaintextKeeps ==
    ASSUME IInv, NEW c \in Commands, InstallPlaintext(c)
    PROVE  IInv'
  <1>1. /\ cmd[c].step = "install"
        /\ UNCHANGED <<version, latest, begun, leftover, vault, registered,
                       blind, faults>>
    BY DEF InstallPlaintext, Working, Store
  <1>2. /\ ~At(c, {"idle"}) /\ At(c, Offline) /\ ~PutsBack(c) /\ At(c, Staging)
    BY <1>1 DEF At, Offline, PutsBack, Staging
  <1>3. /\ cmd[c].run > 0 /\ begun \in Nat /\ cmd[c].data <= version
        /\ cmd[c].mode = "unprotect" /\ cmd[c].obj \in Objects
        /\ vault[cmd[c].obj] = cmd[c].data /\ ~mounted
        /\ staged[c] = File(cmd[c].data, cmd[c].run) /\ staged[c] # None
        /\ path \in Entries /\ staged[c] \in Entries /\ reported = Nil
        /\ path.by # cmd[c].run
        /\ \A d \in Commands \ {c} : staged[d].by # cmd[c].run
    BY <1>1, <1>2, CommandFacts, Unreported DEF CommandOK, Unseen, At, HasObject
  <1>4. CASE /\ path.kind # "none" /\ path' = staged[c]
             /\ staged' = [staged EXCEPT ![c] = path]
             /\ GoTo(c, "check") /\ UNCHANGED <<mounted, reported>>
    <2>1. /\ cmd' \in [Commands -> CommandState]
          /\ cmd'[c].step = "check" /\ cmd'[c].mode = cmd[c].mode
          /\ cmd'[c].run = cmd[c].run /\ cmd'[c].obj = cmd[c].obj
          /\ cmd'[c].data = cmd[c].data
          /\ \A d \in Commands : d # c => cmd'[d] = cmd[d]
      BY <1>4, GoToIs DEF Steps
    <2>2. /\ staged' \in [Commands -> Entries]
          /\ staged'[c] = path /\ staged'[c] # None
          /\ \A d \in Commands : d # c => staged'[d] = staged[d]
      BY <1>3, <1>4, EntryFields DEF IInv, TypeOK
    <2>3. TypeOK'
      BY <1>1, <1>3, <1>4, <2>1, <2>2 DEF IInv, TypeOK
    <2>4. LeavesOthers(c)
      BY <2>1, <2>2, LeavesOthersIs
    <2>5. Frame(c)
      BY <1>1, <1>3, <1>4, <2>2, <2>4 DEF Frame, MovesEntries, Stock, ChangesVault
    <2>6. Knows(c)' /\ KeepsApart(c)
      BY <1>1, <1>2, <1>3, <1>4, <2>1, <2>2
         DEF Knows, CommandOK, Unseen, TargetOK, KeepsApart, At, Reading, Written,
             Offline, Staging, HasObject
    <2>7. Installed(c)' = File(cmd[c].data, cmd[c].run)
      BY <2>1 DEF Installed, At, File
    <2>8. ASSUME NEW d \in Commands \ {c} PROVE staged[d] # Installed(c)'
      BY <1>3, <2>7, EntryFields
    <2>9. ASSUME Keeps(path) PROVE Held'
      <3>1. CASE path = Link(cmd[c].obj)
        <4>1. ~PutsBack(c)'
          BY <2>1, <2>2, <3>1 DEF PutsBack, Drops, At, Link
        <4>2. PICK e : e = staged[c]
          OBVIOUS
        <4>3. Saved(e)
          BY <1>3, <2>9, <3>1, <4>2, EntryFields DEF Keeps, Saved
        <4>4. ~Withdrawn(e)
          <5> SUFFICES ASSUME NEW d \in Commands, PutsBack(d), e = Installed(d)
                       PROVE  FALSE
            BY DEF Withdrawn, Installed
          <5>1. At(d, {"check"}) /\ d # c
            BY <1>2, <1>3, <4>2, EntryFields DEF Installed
          <5>2. At(d, Offline)
            BY <5>1 DEF At, Offline
          <5> QED
            BY <1>2, <5>1, <5>2 DEF IInv, Apart
        <4>5. Saved(e)' /\ ~Withdrawn(e)'
          BY <1>1, <2>4, <4>1, <4>3, <4>4, StillKeeps
        <4>6. Keeps(path)'
          BY <1>4, <4>2, <4>5 DEF Keeps, Saved, Withdrawn
        <4> QED
          BY <4>6 DEF Held
      <3>2. CASE path # Link(cmd[c].obj)
        <4>1. PutsBack(c)'
          BY <2>1, <2>2, <3>2 DEF PutsBack, Drops, At, Link
        <4>2. PICK e : e = path
          OBVIOUS
        <4>3. e # Installed(c)'
          BY <1>3, <2>7, <4>2, EntryFields
        <4>4. Saved(e)' /\ ~Withdrawn(e)'
          BY <1>1, <2>4, <2>9, <4>2, <4>3, StillKeeps DEF Keeps
        <4>5. Keeps(staged[c])'
          BY <2>2, <4>2, <4>4 DEF Keeps, Saved, Withdrawn
        <4> QED
          BY <4>1, <4>5 DEF Held
      <3> QED
        BY <3>1, <3>2
    <2>10. Kept'
      BY <1>1, <1>2, <2>4, <2>8, <2>9, KeptElsewhere
    <2>11. path' # None
      BY <1>3, <1>4
    <2> QED
      BY <1>1, <1>3, <1>4, <2>1, <2>3, <2>5, <2>6, <2>10, <2>11, StepFrame DEF ReportOK
  <1>5. CASE /\ path.kind = "none" /\ staged' = [staged EXCEPT ![c] = None]
             /\ EndUnprotect(c) /\ UNCHANGED path
    <2>1. /\ cmd' \in [Commands -> CommandState] /\ cmd'[c] = Idle
          /\ \A d \in Commands : d # c => cmd'[d] = cmd[d]
          /\ reported' = reported /\ mounted' = TRUE
      BY <1>5, ReturnsIs DEF EndUnprotect
    <2>2. /\ staged' \in [Commands -> Entries] /\ staged'[c] = None
          /\ \A d \in Commands : d # c => staged'[d] = staged[d]
      BY <1>5, EntryTypes DEF IInv, TypeOK
    <2>3. TypeOK'
      BY <1>1, <1>5, <2>1, <2>2 DEF IInv, TypeOK
    <2>4. Frame(c)
      BY <1>1, <1>2, <1>3, <1>5, <2>1, <2>2, LeavesOthersIs
         DEF Frame, MovesEntries, Stock, ChangesVault
    <2>5. KeepsNamed
      BY <1>1 DEF KeepsNamed
    <2> QED
      BY <1>1, <1>2, <1>5, <2>1, <2>2, <2>3, <2>4, <2>5, EndFrame
  <1> QED
    BY <1>4, <1>5 DEF InstallPlaintext

(* The displaced link goes, or what was displaced instead goes back.       *)
LEMMA CheckDisplacedLinkKeeps ==
    ASSUME IInv, NEW c \in Commands, CheckDisplacedLink(c)
    PROVE  IInv'
  <1>1. /\ cmd[c].step = "check" /\ staged' = [staged EXCEPT ![c] = None]
        /\ UNCHANGED <<version, latest, begun, vault, registered, faults>>
    BY DEF CheckDisplacedLink, Working, Store
  <1>2. /\ ~At(c, {"idle"}) /\ At(c, Offline) /\ At(c, Staging) /\ At(c, {"check"})
    BY <1>1 DEF At, Offline, Staging
  <1>3. /\ cmd[c].run > 0 /\ begun \in Nat /\ cmd[c].data <= version
        /\ cmd[c].mode = "unprotect" /\ cmd[c].obj \in Objects
        /\ vault[cmd[c].obj] = cmd[c].data /\ ~mounted
        /\ staged[c] # None /\ staged[c] \in Entries
        /\ path \in Entries /\ reported = Nil
    BY <1>1, <1>2, CommandFacts, Unreported DEF CommandOK, At, HasObject
  <1>4. /\ staged' \in [Commands -> Entries] /\ staged'[c] = None
        /\ \A d \in Commands : d # c => staged'[d] = staged[d]
    BY <1>1, EntryTypes DEF IInv, TypeOK
  <1>5. KeepsNamed
    BY <1>1 DEF KeepsNamed
  <1>6. CASE /\ staged[c] = Link(cmd[c].obj) /\ GoTo(c, "remove")
             /\ UNCHANGED <<path, leftover, mounted, reported, blind>>
    <2>1. /\ cmd' \in [Commands -> CommandState]
          /\ cmd'[c].step = "remove" /\ cmd'[c].mode = cmd[c].mode
          /\ cmd'[c].run = cmd[c].run /\ cmd'[c].obj = cmd[c].obj
          /\ cmd'[c].data = cmd[c].data
          /\ \A d \in Commands : d # c => cmd'[d] = cmd[d]
      BY <1>6, GoToIs DEF Steps
    <2>2. TypeOK'
      BY <1>1, <1>4, <1>6, <2>1 DEF IInv, TypeOK
    <2>3. Frame(c)
      BY <1>1, <1>3, <1>4, <1>6, <2>1, LeavesOthersIs
         DEF Frame, MovesEntries, Stock, ChangesVault
    <2>4. Knows(c)' /\ KeepsApart(c)
      BY <1>1, <1>2, <1>3, <1>4, <1>6, <2>1
         DEF Knows, CommandOK, Unseen, TargetOK, KeepsApart, At, Reading, Written,
             Offline, Staging, HasObject
    <2>5. ~PutsBack(c)
      BY <1>2, <1>6 DEF PutsBack, Drops
    <2>6. Kept'
      BY <1>1, <1>5, <1>6, <2>1, <2>3, <2>5, KeptFrame DEF Frame
    <2> QED
      BY <1>1, <1>3, <1>6, <2>1, <2>2, <2>3, <2>4, <2>6, StepFrame DEF ReportOK
  <1>7. CASE staged[c] # Link(cmd[c].obj) /\ EndUnprotect(c)
    <2>1. /\ cmd' \in [Commands -> CommandState] /\ cmd'[c] = Idle
          /\ \A d \in Commands : d # c => cmd'[d] = cmd[d]
          /\ reported' = reported /\ mounted' = TRUE
      BY <1>7, ReturnsIs DEF EndUnprotect
    <2>2. PutsBack(c)
      BY <1>1, <1>2, <1>7 DEF PutsBack, Drops, At
    <2>3. CASE /\ path.kind # "none" /\ path' = staged[c]
               /\ leftover' = leftover \cup Unstaged(c, path)
               /\ blind' = (blind \/ path # File(cmd[c].data, cmd[c].run))
      <3>1. /\ blind' \in BOOLEAN
            /\ ~blind' => ~blind /\ path = File(cmd[c].data, cmd[c].run)
        BY <2>3
      <3>2. /\ leftover' \subseteq leftover \cup {path} /\ leftover \subseteq leftover'
            /\ leftover' \subseteq Entries
        BY <1>3, <2>3 DEF Unstaged, IInv, TypeOK
      <3>3. TypeOK'
        BY <1>1, <1>3, <1>4, <2>1, <2>3, <3>1, <3>2 DEF IInv, TypeOK
      <3>4. Frame(c)
        BY <1>1, <1>2, <1>3, <1>4, <2>1, <2>3, <3>1, <3>2, LeavesOthersIs
           DEF Frame, MovesEntries, Stock, ChangesVault
      <3>5. ASSUME ~blind', Keeps(path) PROVE FALSE
        <4>1. cmd[c].data = latest
          BY <3>1, <3>5, EntryFields DEF Keeps, Saved
        <4>2. Withdrawn(path)
          BY <1>2, <2>2, <3>1, <3>5, <4>1 DEF Withdrawn
        <4> QED
          BY <3>5, <4>2 DEF Keeps
      <3>6. path' # None
        BY <1>3, <2>3
      <3> QED
        BY <1>2, <1>4, <1>5, <2>1, <2>3, <3>2, <3>3, <3>4, <3>5, <3>6, EndFrame
    <2>4. CASE /\ path.kind = "none"
               /\ leftover' = leftover \cup Unstaged(c, staged[c])
               /\ UNCHANGED <<path, blind>>
      <3>1. latest = 0
        BY <1>3, <2>4, EntryKinds DEF IInv, PathGone
      <3>2. /\ leftover' \subseteq leftover \cup {staged[c]}
            /\ leftover \subseteq leftover' /\ leftover' \subseteq Entries
        BY <1>3, <2>4 DEF Unstaged, IInv, TypeOK
      <3>3. TypeOK'
        BY <1>1, <1>4, <2>1, <2>4, <3>2 DEF IInv, TypeOK
      <3>4. Frame(c)
        BY <1>1, <1>2, <1>3, <1>4, <2>1, <2>4, <3>2, LeavesOthersIs
           DEF Frame, MovesEntries, Stock, ChangesVault
      <3> QED
        BY <1>2, <1>4, <1>5, <2>1, <2>4, <3>1, <3>2, <3>3, <3>4, EndFrame
    <2> QED
      BY <1>7, <2>3, <2>4 DEF CheckDisplacedLink
  <1> QED
    BY <1>6, <1>7 DEF CheckDisplacedLink

-----------------------------------------------------------------------------
(* The theorems.                                                           *)

(* The first state: the user's file, and no command.                       *)
LEMMA InitIInv == Init => IInv
  <1> SUFFICES ASSUME Init PROVE IInv
    OBVIOUS
  <1>1. /\ path = File(1, 0) /\ staged = [c \in Commands |-> None] /\ leftover = {}
        /\ vault = [o \in Objects |-> Nil] /\ registered = {} /\ mounted = TRUE
        /\ cmd = [c \in Commands |-> Idle] /\ version = 1 /\ latest = 1
        /\ blind = FALSE /\ reported = Nil /\ faults = 0 /\ begun = 0
    BY DEF Init, User
  <1>2. /\ 1 \in Versions /\ 0 \in Runs /\ 0 \in 0 .. MaxFaults /\ 0 \in 0 .. MaxBegun
    BY ProjectFileAssumption DEF Versions, Runs
  <1>3. path \in Entries /\ path.kind = "file" /\ path.version = 1 /\ path.by = 0
        /\ path # None
    BY <1>1, <1>2, EntryTypes, EntryFields
  <1>4. TypeOK
    BY <1>1, <1>2, <1>3, EntryTypes, IdleState DEF TypeOK
  <1>5. Bounds
    BY <1>1, <1>3, EntryFields, IdleState DEF Bounds, Lasts
  <1>6. ASSUME NEW c \in Commands PROVE CommandOK(c) /\ Unseen(c) /\ TargetOK(c)
    BY <1>1, IdleState
       DEF CommandOK, Unseen, TargetOK, At, Reading, Written, Offline, Staging, HasObject
  <1>7. Apart /\ SeenBefore
    BY <1>1, IdleState DEF Apart, SeenBefore, At, Reading, Written, Offline
  <1>8. \A c \in Commands : ~PutsBack(c)
    BY <1>1, IdleState DEF PutsBack, At
  <1>9. Kept
    BY <1>1, <1>3, <1>8 DEF Kept, Keeps, Saved, Withdrawn
  <1>10. PathGone /\ ReportOK
    BY <1>1, <1>3 DEF PathGone, ReportOK
  <1> QED
    BY <1>4, <1>5, <1>6, <1>7, <1>9, <1>10 DEF IInv

(* Every step keeps the invariant.                                         *)
LEMMA NextIInv == IInv /\ [Next]_vars => IInv'
  <1> SUFFICES ASSUME IInv, [Next]_vars PROVE IInv'
    OBVIOUS
  <1>1. CASE UserSave \/ UserWrite \/ UserDelete
    BY <1>1, UserSaveKeeps, UserWriteKeeps, UserDeleteKeeps
  <1>2. ASSUME NEW c \in Commands,
               BeginEncrypt(c) \/ BeginEdit(c) \/ BeginUnprotect(c) \/ Crash(c)
        PROVE  IInv'
    BY <1>2, BeginEncryptKeeps, BeginEditKeeps, BeginUnprotectKeeps, CrashKeeps
  <1>3. ASSUME NEW c \in Commands, Step(c) PROVE IInv'
    BY <1>3, ClassifyKeeps, ResolveKeeps, ReadSourceKeeps, CreateTargetKeeps,
       WriteTargetKeeps, RecheckKeeps, ExchangeKeeps, ValidateDisplacedKeeps,
       RollbackKeeps, UndoTargetKeeps, RegisterKeeps, ReconcileKeeps,
       DecryptFileKeeps, StagePlaintextKeeps, InstallPlaintextKeeps,
       CheckDisplacedLinkKeeps, RemoveCiphertextKeeps
       DEF Step
  <1>4. CASE UNCHANGED vars
    BY <1>4
       DEF vars, IInv, TypeOK, Bounds, Lasts, CommandOK, Unseen, TargetOK, Named, Apart,
           SeenBefore, PathGone, Kept, Keeps, Saved, Withdrawn, PutsBack, Drops,
           ReportOK, ReportedIsProtected, At
  <1> QED
    BY <1>1, <1>2, <1>3, <1>4 DEF Next

(* The inductive invariant always holds.                                   *)
LEMMA AlwaysIInv == Spec => []IInv
  BY InitIInv, NextIInv, PTL DEF Spec

(* The variables of ProjectFile always have their types.                   *)
THEOREM TypeCorrect == Spec => []TypeOK
  <1>1. IInv => TypeOK
    BY DEF IInv
  <1> QED
    BY <1>1, AlwaysIInv, PTL

(* No encrypt, edit or unprotect loses what the user saved last, with any  *)
(* number of commands at work on the path, whichever of them fail or die   *)
(* (importFile, ReconcileProtectedEdit, exchangePathWithSymlink,           *)
(* unprotectFile), unless a removal hit what had changed since it was last *)
(* looked at.                                                              *)
THEOREM LastSaveKept == Spec => []LatestKept
  <1>1. IInv => LatestKept
    <2> SUFFICES ASSUME IInv, latest # 0, ~blind PROVE Found(latest)
      BY DEF LatestKept
    <2>1. PICK e \in Entries :
            Saved(e) /\ e \in {path} \cup leftover \cup {staged[c] : c \in Commands}
      BY DEF IInv, TypeOK, Kept, Keeps
    <2>2. e.kind = "link" => e.obj \in Objects
      BY EntryKinds
    <2> QED
      BY <2>1, <2>2 DEF Saved, Found
  <1> QED
    BY <1>1, AlwaysIInv, PTL

(* What encrypt and edit report is so: the path is the link of a           *)
(* registered object that holds what was read (ImportThroughMount,         *)
(* ReconcileProtectedEdit, RegisterProtectedLinkInVault).                  *)
THEOREM ReportsAreTrue == Spec => []ReportedIsProtected
  <1>1. IInv => ReportedIsProtected
    BY DEF IInv, ReportOK, ReportedIsProtected
  <1> QED
    BY <1>1, AlwaysIInv, PTL
=============================================================================
