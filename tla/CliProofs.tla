----------------------------- MODULE CliProofs -----------------------------
(***************************************************************************)
(* Proofs about Cli.tla, for any number of commands on one config.toml,    *)
(* any devices and any lengths of the texts that are saved.                *)
(***************************************************************************)
EXTENDS Cli, TLAPS

(***************************************************************************)
(* The inductive invariant.                                                *)
(***************************************************************************)

\* A device that a command or the file names has been enrolled.
Known ==
    /\ \A c \in Commands : dev[c] \in Devices => token[dev[c]] # "none"
    /\ \A d \in inside : token[d] # "none"
    /\ file \in Texts =>
          \A d \in Devices \cap {file.device, file.token} : token[d] # "none"

\* Until it is saved a device is known to the login that was granted it alone.
Private ==
    \A c \in Commands : pc[c] \in {"granted", "saving"} =>
        /\ dev[c] \in Devices \ inside
        /\ file \in Texts => dev[c] \notin {file.device, file.token}
        /\ \A x \in Commands : x # c => dev[x] # dev[c]
        /\ \A x \in Commands :
              pc[x] \in {"leaving", "gone", "left"} => aim[x] # dev[c]

\* logout revokes the device it has read, and goes on only when it is dead.
Left ==
    \A c \in Commands :
        /\ pc[c] = "leaving" => aim[c] # None
        /\ pc[c] = "leaving" /\ aim[c] \in Devices => token[aim[c]] # "none"
        /\ pc[c] \in {"gone", "left"} => aim[c] \in Devices /\ token[aim[c]] = "dead"

\* Saves of texts of one length have not written beyond it.
Level ==
    even => \A x \in Commands : due[x] # 0 =>
                /\ extent <= due[x]
                /\ \A y \in Commands : due[y] # 0 => due[x] = due[y]

IInv ==
    /\ TypeOK /\ Known /\ Private /\ Left /\ Level
    /\ LogoutMeansRevoked /\ LiveIsAccounted /\ WholeUnlessCut

\* What a file keeps is a device.
LEMMA KeptIsDevice ==
    ASSUME NEW f \in Texts \cup {None, Torn}
    PROVE  Kept(f) \subseteq Devices
BY FileAssumption DEF Kept, Texts, Parts

\* A whole text parses, and keeps the token of its device.
LEMMA TextIsWhole ==
    ASSUME NEW d \in Devices
    PROVE  /\ Text(d) \in Texts /\ Whole(Text(d)) /\ Kept(Text(d)) = {d}
           /\ Text(d).device = d /\ Text(d).token = d
BY FileAssumption DEF Text, Texts, Whole, Kept, Parts

\* A file that is absent or does not parse keeps none.
LEMMA NothingKept == Kept(None) = {} /\ Kept(Torn) = {}
BY FileAssumption DEF Kept

\* What save() has yet to write is a number.
LEMMA LengthIsNat ==
    ASSUME NEW n \in Lengths \cup {0}
    PROVE  n \in Nat
<1>1. Lengths \subseteq Nat
  BY FileAssumption
<1> QED
  BY <1>1

\* The initial states satisfy it.
LEMMA InvInit == Init => IInv
<1> SUFFICES ASSUME Init PROVE IInv
  OBVIOUS
<1> USE FileAssumption DEF Init, Hub!Init
<1>1. TypeOK
  BY DEF TypeOK, Rest, Asking, Parts
<1>2. Known /\ Private /\ Left /\ Level
  BY DEF Known, Private, Left, Level, Parts
<1>3. LogoutMeansRevoked /\ LiveIsAccounted /\ WholeUnlessCut
  BY DEF LogoutMeansRevoked, LiveIsAccounted, WholeUnlessCut
<1> QED
  BY <1>1, <1>2, <1>3 DEF IInv

\* LoginBegin keeps it: the command has no device yet.
LEMMA LoginBeginInv ==
    ASSUME IInv, NEW c \in Commands, LoginBegin(c)
    PROVE  IInv'
<1> USE FileAssumption DEF IInv, LoginBegin, Ready, Goto, Rest, Asking, server, content
<1>1. TypeOK'
  BY DEF TypeOK, Parts
<1>2. Known'
  BY DEF TypeOK, Known, Left, Parts
<1>3. Private'
  BY DEF TypeOK, Known, Private, Left
<1>4. Left'
  BY DEF TypeOK, Left, Known
<1>5. Level'
  BY DEF TypeOK, Level
<1>6. LogoutMeansRevoked'
  BY DEF TypeOK, LogoutMeansRevoked, Left, Private
<1>7. LiveIsAccounted'
  BY DEF TypeOK, LiveIsAccounted, Holds, Left
<1>8. WholeUnlessCut'
  BY DEF TypeOK, WholeUnlessCut, Level
<1> QED
  BY <1>1, <1>2, <1>3, <1>4, <1>5, <1>6, <1>7, <1>8

\* Register keeps it.
LEMMA RegisterInv ==
    ASSUME IInv, NEW c \in Commands, Register(c)
    PROVE  IInv'
<1> USE FileAssumption DEF IInv, Register, Ready, Goto, Rest, Asking, server, content
<1>1. TypeOK'
  BY DEF TypeOK, Parts
<1>2. Known'
  BY DEF TypeOK, Known, Left, Parts
<1>3. Private'
  BY DEF TypeOK, Known, Private, Left
<1>4. Left'
  BY DEF TypeOK, Left, Known
<1>5. Level'
  BY DEF TypeOK, Level
<1>6. LogoutMeansRevoked'
  BY DEF TypeOK, LogoutMeansRevoked, Left, Private
<1>7. LiveIsAccounted'
  BY DEF TypeOK, LiveIsAccounted, Holds, Left
<1>8. WholeUnlessCut'
  BY DEF TypeOK, WholeUnlessCut, Level
<1> QED
  BY <1>1, <1>2, <1>3, <1>4, <1>5, <1>6, <1>7, <1>8

\* A login that fails keeps it.
LEMMA LoginFailsInv ==
    ASSUME IInv, NEW c \in Commands, LoginFails(c)
    PROVE  IInv'
<1> USE FileAssumption DEF IInv, LoginFails, Goto, Rest, Asking, server, content
<1>1. TypeOK'
  BY DEF TypeOK, Parts
<1>2. Known'
  BY DEF TypeOK, Known, Left, Parts
<1>3. Private'
  BY DEF TypeOK, Known, Private, Left
<1>4. Left'
  BY DEF TypeOK, Left, Known
<1>5. Level'
  BY DEF TypeOK, Level
<1>6. LogoutMeansRevoked'
  BY DEF TypeOK, LogoutMeansRevoked, Left, Private
<1>7. LiveIsAccounted'
  BY DEF TypeOK, LiveIsAccounted, Holds, Left
<1>8. WholeUnlessCut'
  BY DEF TypeOK, WholeUnlessCut, Level
<1> QED
  BY <1>1, <1>2, <1>3, <1>4, <1>5, <1>6, <1>7, <1>8

\* Enroll keeps it: nobody has seen a device that had no token.
LEMMA EnrollInv ==
    ASSUME IInv, NEW c \in Commands, NEW d \in Devices, Enroll(c, d)
    PROVE  IInv'
<1> USE FileAssumption DEF IInv, Enroll, Hub!Issue, Goto, Rest, Asking, server, content
<1>1. TypeOK'
  BY DEF TypeOK, Parts
<1>2. Known'
  BY DEF TypeOK, Known, Left, Parts
<1>3. Private'
  BY DEF TypeOK, Known, Private, Left
<1>4. Left'
  BY DEF TypeOK, Left, Known
<1>5. Level'
  BY DEF TypeOK, Level
<1>6. LogoutMeansRevoked'
  BY DEF TypeOK, LogoutMeansRevoked, Left, Private
<1>7. LiveIsAccounted'
  BY DEF TypeOK, LiveIsAccounted, Holds, Left
<1>8. WholeUnlessCut'
  BY DEF TypeOK, WholeUnlessCut, Level
<1> QED
  BY <1>1, <1>2, <1>3, <1>4, <1>5, <1>6, <1>7, <1>8

\* An enrollment the client never hears of keeps it: the device is forgotten.
LEMMA EnrollLostInv ==
    ASSUME IInv, NEW c \in Commands, NEW d \in Devices, EnrollLost(c, d)
    PROVE  IInv'
<1> USE FileAssumption DEF IInv, EnrollLost, Hub!Issue, Goto, Rest, Asking, server, content
<1>1. TypeOK'
  BY DEF TypeOK, Parts
<1>2. Known'
  BY DEF TypeOK, Known, Left, Parts
<1>3. Private'
  BY DEF TypeOK, Known, Private, Left
<1>4. Left'
  BY DEF TypeOK, Left, Known
<1>5. Level'
  BY DEF TypeOK, Level
<1>6. LogoutMeansRevoked'
  BY DEF TypeOK, LogoutMeansRevoked, Left, Private
<1>7. LiveIsAccounted'
  BY DEF TypeOK, LiveIsAccounted, Holds, Left
<1>8. WholeUnlessCut'
  BY DEF TypeOK, WholeUnlessCut, Level
<1> QED
  BY <1>1, <1>2, <1>3, <1>4, <1>5, <1>6, <1>7, <1>8

\* A save that fails before it touches the file keeps it.
LEMMA SaveFailsInv ==
    ASSUME IInv, NEW c \in Commands, SaveFails(c)
    PROVE  IInv'
<1> USE FileAssumption DEF IInv, SaveFails, Goto, Rest, Asking, server, content
<1>1. TypeOK'
  BY DEF TypeOK, Private
<1>2. Known'
  BY DEF TypeOK, Known, Left, Parts
<1>3. Private'
  BY DEF TypeOK, Known, Private, Left
<1>4. Left'
  BY DEF TypeOK, Left, Known
<1>5. Level'
  BY DEF TypeOK, Level
<1>6. LogoutMeansRevoked'
  BY DEF TypeOK, LogoutMeansRevoked, Left, Private
<1>7. LiveIsAccounted'
  BY DEF TypeOK, LiveIsAccounted, Holds, Left
<1>8. WholeUnlessCut'
  BY DEF TypeOK, WholeUnlessCut, Level
<1> QED
  BY <1>1, <1>2, <1>3, <1>4, <1>5, <1>6, <1>7, <1>8

\* The truncation keeps it: what was in the file is forgotten.
LEMMA SaveBeginInv ==
    ASSUME IInv, NEW c \in Commands, NEW n \in Lengths, SaveBegin(c, n)
    PROVE  IInv'
<1> USE FileAssumption DEF IInv, SaveBegin, Goto, Rest, Asking, server, content
<1>1. TypeOK'
  BY KeptIsDevice DEF TypeOK
<1>2. Known'
  BY DEF TypeOK, Known, Left, Parts
<1>3. Private'
  BY DEF TypeOK, Known, Private, Left
<1>4. Left'
  BY DEF TypeOK, Left, Known
<1>5. Level'
  <2>1. n \in Nat /\ 0 <= n /\ due' = [due EXCEPT ![c] = n] /\ extent' = 0
    OBVIOUS
  <2>2. ASSUME NEW x \in Commands, due'[x] # 0, even'
        PROVE  due'[x] = n
    BY <2>1, <2>2 DEF TypeOK
  <2>3. ASSUME NEW x \in Commands, due'[x] # 0, even'
        PROVE  extent' <= due'[x]
    <3>1. due'[x] = n
      BY <2>2, <2>3
    <3> QED
      BY <2>1, <3>1
  <2> QED
    BY <2>2, <2>3 DEF Level
<1>6. LogoutMeansRevoked'
  BY DEF TypeOK, LogoutMeansRevoked, Left, Private
<1>7. LiveIsAccounted'
  BY NothingKept DEF TypeOK, LiveIsAccounted, Holds
<1>8. WholeUnlessCut'
  BY DEF TypeOK, WholeUnlessCut
<1> QED
  BY <1>1, <1>2, <1>3, <1>4, <1>5, <1>6, <1>7, <1>8

\* What a save that is over leaves: a file that names no device but its own and
\* those whose bytes are inside, and that is whole unless it was cut off or met a
\* longer text.
Leaves(c) ==
    /\ file' \in Texts \cup {None, Torn}
    /\ file' = None <=> file = None
    /\ file' # file /\ file' \in Texts =>
          {file'.device, file'.token} \subseteq inside \cup {dev[c], Garbled}
    /\ cut' \in BOOLEAN
    /\ \/ Whole(file') \/ cut' \/ (due[c] # 0 /\ ~even)
       \/ due[c] = 0 /\ UNCHANGED <<file, cut>>

\* Whether it wrote something or nothing, a save that is over keeps it.
LEMMA SaveOverInv ==
    ASSUME IInv, NEW c \in Commands, NEW n \in Nat, SaveOver(c, n),
           n <= due[c], Leaves(c)
    PROVE  IInv'
<1> USE FileAssumption DEF Leaves
<1>0. /\ pc[c] = "saving" /\ dev[c] \in Devices \ inside
      /\ pc' = [pc EXCEPT ![c] = "idle"] /\ due' = [due EXCEPT ![c] = 0]
      /\ UNCHANGED <<account, token, lease, aim, dev>>
      /\ inside' \subseteq inside \cup {dev[c]}
  BY DEF IInv, SaveOver, Private, Goto, server
<1>00. /\ Kept(file) \subseteq Devices /\ Kept(file') \subseteq Devices
       /\ extent' \in Nat
  BY KeptIsDevice DEF IInv, TypeOK, SaveOver, Larger
<1>1. TypeOK'
  BY <1>0, <1>00 DEF IInv, TypeOK, SaveOver, Rest, Asking
<1>2. Known'
  BY <1>0 DEF IInv, TypeOK, Known, Texts, Parts
<1>3. Private'
  BY <1>0 DEF IInv, TypeOK, Private
<1>4. Left'
  BY <1>0 DEF IInv, TypeOK, Left
<1>5. Level'
  BY <1>0 DEF IInv, TypeOK, Level, SaveOver, Larger, Others
<1>6. LogoutMeansRevoked'
  BY <1>0 DEF IInv, TypeOK, LogoutMeansRevoked, Private, Left
<1>7. LiveIsAccounted'
  BY <1>0, <1>00 DEF IInv, TypeOK, LiveIsAccounted, Holds, SaveOver
<1>8. WholeUnlessCut'
  BY <1>0 DEF IInv, TypeOK, WholeUnlessCut, SaveOver, Others
<1> QED
  BY <1>1, <1>2, <1>3, <1>4, <1>5, <1>6, <1>7, <1>8 DEF IInv

\* The write keeps it: over a text of its own length it leaves a whole one.
LEMMA SaveEndInv ==
    ASSUME IInv, NEW c \in Commands, SaveEnd(c)
    PROVE  IInv'
<1> USE FileAssumption
<1>1. /\ pc[c] = "saving" /\ dev[c] \in Devices /\ due[c] \in Nat /\ due[c] # 0
      /\ file # None /\ SaveOver(c, due[c]) /\ cut' = FALSE
  BY DEF IInv, TypeOK, SaveEnd, SaveOver, Private
<1>2. CASE file' = Text(dev[c])
  <2>1. /\ file' \in Texts /\ Whole(file') /\ file' # None
        /\ {file'.device, file'.token} \subseteq inside \cup {dev[c], Garbled}
    BY <1>1, <1>2, TextIsWhole
  <2>2. Leaves(c)
    BY <1>1, <2>1 DEF Leaves
  <2> QED
    BY <1>1, <2>2, SaveOverInv
<1>3. CASE extent > due[c] /\ file' = Torn
  <2>1. ~even
    BY <1>1, <1>3 DEF IInv, TypeOK, Level
  <2>2. /\ file' \in Texts \cup {None, Torn} /\ file' # None
        /\ file' \notin Texts
    BY <1>3
  <2>3. Leaves(c)
    BY <1>1, <2>1, <2>2 DEF Leaves
  <2> QED
    BY <1>1, <2>3, SaveOverInv
<1> QED
  BY <1>2, <1>3 DEF SaveEnd

\* A save that is cut off keeps it: it leaves nothing new, or is to blame.
LEMMA SaveCutInv ==
    ASSUME IInv, NEW c \in Commands, SaveCut(c)
    PROVE  IInv'
<1> USE FileAssumption
<1>1. due[c] \in Nat /\ extent \in Nat /\ file \in Texts \cup {None, Torn}
  <2>1. due[c] \in Lengths \cup {0}
    BY DEF IInv, TypeOK
  <2>2. due[c] \in Nat
    BY <2>1, LengthIsNat
  <2> QED
    BY <2>2 DEF IInv, TypeOK
<1>2. PICK n \in 0..(due[c] - 1) :
        /\ file' \in CASE n = 0               -> {file}
                       [] n > 0 /\ n >= extent -> {Torn}
                       [] n > 0 /\ n < extent  -> {Torn, file} \cup Mixtures(c)
        /\ SaveOver(c, n)
  BY DEF SaveCut
<1>3. /\ pc[c] = "saving" /\ dev[c] \in Devices /\ n \in Nat /\ n < due[c]
      /\ file # None /\ inside \subseteq Devices
  BY <1>1, <1>2 DEF IInv, TypeOK, SaveOver, Private
<1>4. \A f \in Mixtures(c) :
         f \in Texts /\ {f.device, f.token} \subseteq inside \cup {dev[c], Garbled}
  BY <1>3 DEF Mixtures, Texts, Parts
<1>5. file' \in {file, Torn} \cup Mixtures(c) /\ (n = 0 => file' = file)
  BY <1>1, <1>2, <1>3
<1>6. cut' = ~Whole(file') /\ cut' \in BOOLEAN
  BY DEF SaveCut
<1>7. file' \in Texts \cup {None, Torn} /\ file' # None
  BY <1>1, <1>3, <1>4, <1>5
<1>8. file' # file /\ file' \in Texts =>
         {file'.device, file'.token} \subseteq inside \cup {dev[c], Garbled}
  BY <1>4, <1>5
<1>9. Leaves(c)
  BY <1>3, <1>6, <1>7, <1>8 DEF Leaves
<1> QED
  BY <1>1, <1>2, <1>3, <1>9, SaveOverInv

\* So does a save into a file that is gone.
LEMMA SaveLostInv ==
    ASSUME IInv, NEW c \in Commands, SaveLost(c)
    PROVE  IInv'
<1>1. Leaves(c)
  BY DEF IInv, TypeOK, SaveLost, Leaves
<1> QED
  BY <1>1, SaveOverInv DEF SaveLost

\* The commands that revoke nothing keep it.
LEMMA UseInv ==
    ASSUME IInv, NEW c \in Commands, Use(c)
    PROVE  IInv'
<1> USE FileAssumption DEF IInv, Use, Ask, Stored, Ready, Texts, Parts,
           Goto, Rest, Asking, server, content
<1>1. TypeOK'
  BY DEF TypeOK, Parts
<1>2. Known'
  BY DEF TypeOK, Known, Left, Parts
<1>3. Private'
  BY DEF TypeOK, Known, Private, Left
<1>4. Left'
  BY DEF TypeOK, Left, Known
<1>5. Level'
  BY DEF TypeOK, Level
<1>6. LogoutMeansRevoked'
  BY DEF TypeOK, LogoutMeansRevoked, Left, Private
<1>7. LiveIsAccounted'
  BY DEF TypeOK, LiveIsAccounted, Holds, Left
<1>8. WholeUnlessCut'
  BY DEF TypeOK, WholeUnlessCut, Level
<1> QED
  BY <1>1, <1>2, <1>3, <1>4, <1>5, <1>6, <1>7, <1>8

\* device revoke keeps it.
LEMMA KickInv ==
    ASSUME IInv, NEW c \in Commands, NEW d \in Devices, Kick(c, d)
    PROVE  IInv'
<1> USE FileAssumption DEF IInv, Kick, Ask, Stored, Ready, Texts, Parts,
           Goto, Rest, Asking, server, content
<1>1. TypeOK'
  BY DEF TypeOK, Parts
<1>2. Known'
  BY DEF TypeOK, Known, Left, Parts
<1>3. Private'
  BY DEF TypeOK, Known, Private, Left
<1>4. Left'
  BY DEF TypeOK, Left, Known
<1>5. Level'
  BY DEF TypeOK, Level
<1>6. LogoutMeansRevoked'
  BY DEF TypeOK, LogoutMeansRevoked, Left, Private
<1>7. LiveIsAccounted'
  BY DEF TypeOK, LiveIsAccounted, Holds, Left
<1>8. WholeUnlessCut'
  BY DEF TypeOK, WholeUnlessCut, Level
<1> QED
  BY <1>1, <1>2, <1>3, <1>4, <1>5, <1>6, <1>7, <1>8

\* logout keeps it: it asks to revoke what it has read.
LEMMA LeaveInv ==
    ASSUME IInv, NEW c \in Commands, Leave(c)
    PROVE  IInv'
<1> USE FileAssumption DEF IInv, Leave, Ask, Stored, Ready, Texts, Parts,
           Goto, Rest, Asking, server, content
<1>1. TypeOK'
  BY DEF TypeOK, Parts
<1>2. Known'
  BY DEF TypeOK, Known, Left, Parts
<1>3. Private'
  BY DEF TypeOK, Known, Private, Left
<1>4. Left'
  BY DEF TypeOK, Left, Known
<1>5. Level'
  BY DEF TypeOK, Level
<1>6. LogoutMeansRevoked'
  BY DEF TypeOK, LogoutMeansRevoked, Left, Private
<1>7. LiveIsAccounted'
  BY DEF TypeOK, LiveIsAccounted, Holds, Left
<1>8. WholeUnlessCut'
  BY DEF TypeOK, WholeUnlessCut, Level
<1> QED
  BY <1>1, <1>2, <1>3, <1>4, <1>5, <1>6, <1>7, <1>8

\* Admission keeps it.
LEMMA ArriveInv ==
    ASSUME IInv, NEW c \in Commands, Arrive(c)
    PROVE  IInv'
<1> USE FileAssumption DEF IInv, Arrive, Hub!Admit, Goto, Rest, Asking, server, content
<1>1. TypeOK'
  BY DEF TypeOK, Parts
<1>2. Known'
  BY DEF TypeOK, Known, Left, Parts
<1>3. Private'
  BY DEF TypeOK, Known, Private, Left
<1>4. Left'
  BY DEF TypeOK, Left, Known
<1>5. Level'
  BY DEF TypeOK, Level
<1>6. LogoutMeansRevoked'
  BY DEF TypeOK, LogoutMeansRevoked, Left, Private
<1>7. LiveIsAccounted'
  BY DEF TypeOK, LiveIsAccounted, Holds, Left
<1>8. WholeUnlessCut'
  BY DEF TypeOK, WholeUnlessCut, Level
<1> QED
  BY <1>1, <1>2, <1>3, <1>4, <1>5, <1>6, <1>7, <1>8

\* The server's revocation keeps it.
LEMMA RevokeInv ==
    ASSUME IInv, NEW c \in Commands, Revoke(c)
    PROVE  IInv'
<1> USE FileAssumption DEF IInv, Revoke, Hub!Kill, Goto, Rest, Asking, server, content
<1>1. TypeOK'
  BY DEF TypeOK, Parts
<1>2. Known'
  BY DEF TypeOK, Known, Left, Parts
<1>3. Private'
  BY DEF TypeOK, Known, Private, Left
<1>4. Left'
  BY DEF TypeOK, Left, Known
<1>5. Level'
  BY DEF TypeOK, Level
<1>6. LogoutMeansRevoked'
  BY DEF TypeOK, LogoutMeansRevoked, Left, Private
<1>7. LiveIsAccounted'
  BY DEF TypeOK, LiveIsAccounted, Holds, Left
<1>8. WholeUnlessCut'
  BY DEF TypeOK, WholeUnlessCut, Level
<1> QED
  BY <1>1, <1>2, <1>3, <1>4, <1>5, <1>6, <1>7, <1>8

\* A success keeps it: for logout, its device is dead.
LEMMA AnsweredInv ==
    ASSUME IInv, NEW c \in Commands, Answered(c)
    PROVE  IInv'
<1> USE FileAssumption DEF IInv, Answered, Hub!Release, Goto, Rest, Asking, server, content
<1>1. TypeOK'
  BY DEF TypeOK, Parts
<1>2. Known'
  BY DEF TypeOK, Known, Left, Parts
<1>3. Private'
  BY DEF TypeOK, Known, Private, Left
<1>4. Left'
  BY DEF TypeOK, Left, Known
<1>5. Level'
  BY DEF TypeOK, Level
<1>6. LogoutMeansRevoked'
  BY DEF TypeOK, LogoutMeansRevoked, Left, Private
<1>7. LiveIsAccounted'
  BY DEF TypeOK, LiveIsAccounted, Holds, Left
<1>8. WholeUnlessCut'
  BY DEF TypeOK, WholeUnlessCut, Level
<1> QED
  BY <1>1, <1>2, <1>3, <1>4, <1>5, <1>6, <1>7, <1>8

\* A failure keeps it.
LEMMA FailsInv ==
    ASSUME IInv, NEW c \in Commands, Fails(c)
    PROVE  IInv'
<1> USE FileAssumption DEF IInv, Fails, Goto, Rest, Asking, server, content
<1>1. TypeOK'
  BY DEF TypeOK, Parts
<1>2. Known'
  BY DEF TypeOK, Known, Left, Parts
<1>3. Private'
  BY DEF TypeOK, Known, Private, Left
<1>4. Left'
  BY DEF TypeOK, Left, Known
<1>5. Level'
  BY DEF TypeOK, Level
<1>6. LogoutMeansRevoked'
  BY DEF TypeOK, LogoutMeansRevoked, Left, Private
<1>7. LiveIsAccounted'
  BY DEF TypeOK, LiveIsAccounted, Holds, Left
<1>8. WholeUnlessCut'
  BY DEF TypeOK, WholeUnlessCut, Level
<1> QED
  BY <1>1, <1>2, <1>3, <1>4, <1>5, <1>6, <1>7, <1>8

\* A dropped request keeps it.
LEMMA DropInv ==
    ASSUME IInv, NEW c \in Commands, Drop(c)
    PROVE  IInv'
<1> USE FileAssumption DEF IInv, Drop, Hub!Release, Goto, Rest, Asking, server, content
<1>1. TypeOK'
  BY DEF TypeOK, Parts
<1>2. Known'
  BY DEF TypeOK, Known, Left, Parts
<1>3. Private'
  BY DEF TypeOK, Known, Private, Left
<1>4. Left'
  BY DEF TypeOK, Left, Known
<1>5. Level'
  BY DEF TypeOK, Level
<1>6. LogoutMeansRevoked'
  BY DEF TypeOK, LogoutMeansRevoked, Left, Private
<1>7. LiveIsAccounted'
  BY DEF TypeOK, LiveIsAccounted, Holds, Left
<1>8. WholeUnlessCut'
  BY DEF TypeOK, WholeUnlessCut, Level
<1> QED
  BY <1>1, <1>2, <1>3, <1>4, <1>5, <1>6, <1>7, <1>8

\* clear() keeps it: it removes a dead device, or forgets another.
LEMMA ClearInv ==
    ASSUME IInv, NEW c \in Commands, Clear(c)
    PROVE  IInv'
<1> USE FileAssumption DEF IInv, Clear, Goto, Rest, Asking, server, content
<1>1. TypeOK'
  BY KeptIsDevice DEF TypeOK
<1>2. Known'
  BY DEF TypeOK, Known, Left, Parts
<1>3. Private'
  BY DEF TypeOK, Known, Private, Left
<1>4. Left'
  BY DEF TypeOK, Left, Known
<1>5. Level'
  BY DEF TypeOK, Level
<1>6. LogoutMeansRevoked'
  BY DEF TypeOK, LogoutMeansRevoked, Left, Private
<1>7. LiveIsAccounted'
  BY NothingKept DEF TypeOK, LiveIsAccounted, Holds, Left
<1>8. WholeUnlessCut'
  BY DEF TypeOK, WholeUnlessCut, Level
<1> QED
  BY <1>1, <1>2, <1>3, <1>4, <1>5, <1>6, <1>7, <1>8

\* clear() that fails keeps it.
LEMMA ClearFailsInv ==
    ASSUME IInv, NEW c \in Commands, ClearFails(c)
    PROVE  IInv'
<1> USE FileAssumption DEF IInv, ClearFails, Goto, Rest, Asking, server, content
<1>1. TypeOK'
  BY DEF TypeOK, Parts
<1>2. Known'
  BY DEF TypeOK, Known, Left, Parts
<1>3. Private'
  BY DEF TypeOK, Known, Private, Left
<1>4. Left'
  BY DEF TypeOK, Left, Known
<1>5. Level'
  BY DEF TypeOK, Level
<1>6. LogoutMeansRevoked'
  BY DEF TypeOK, LogoutMeansRevoked, Left, Private
<1>7. LiveIsAccounted'
  BY DEF TypeOK, LiveIsAccounted, Holds, Left
<1>8. WholeUnlessCut'
  BY DEF TypeOK, WholeUnlessCut, Level
<1> QED
  BY <1>1, <1>2, <1>3, <1>4, <1>5, <1>6, <1>7, <1>8

\* A revocation from elsewhere keeps it.
LEMMA RevokedElsewhereInv ==
    ASSUME IInv, NEW d \in Devices, RevokedElsewhere(d)
    PROVE  IInv'
<1> USE FileAssumption DEF IInv, RevokedElsewhere, Goto, Rest, Asking, server, content
<1>1. TypeOK'
  BY DEF TypeOK, Parts
<1>2. Known'
  BY DEF TypeOK, Known, Left, Parts
<1>3. Private'
  BY DEF TypeOK, Known, Private, Left
<1>4. Left'
  BY DEF TypeOK, Left, Known
<1>5. Level'
  BY DEF TypeOK, Level
<1>6. LogoutMeansRevoked'
  BY DEF TypeOK, LogoutMeansRevoked, Left, Private
<1>7. LiveIsAccounted'
  BY DEF TypeOK, LiveIsAccounted, Holds, Left
<1>8. WholeUnlessCut'
  BY DEF TypeOK, WholeUnlessCut, Level
<1> QED
  BY <1>1, <1>2, <1>3, <1>4, <1>5, <1>6, <1>7, <1>8

\* So does the user's hand.
LEMMA RemoveByHandInv ==
    ASSUME IInv, RemoveByHand
    PROVE  IInv'
<1> USE FileAssumption DEF IInv, RemoveByHand, Goto, Rest, Asking, server, content
<1>1. TypeOK'
  BY DEF TypeOK, Parts
<1>2. Known'
  BY DEF TypeOK, Known, Left, Parts
<1>3. Private'
  BY DEF TypeOK, Known, Private, Left
<1>4. Left'
  BY DEF TypeOK, Left, Known
<1>5. Level'
  BY DEF TypeOK, Level
<1>6. LogoutMeansRevoked'
  BY DEF TypeOK, LogoutMeansRevoked, Left, Private
<1>7. LiveIsAccounted'
  BY NothingKept DEF TypeOK, LiveIsAccounted, Holds
<1>8. WholeUnlessCut'
  BY DEF TypeOK, WholeUnlessCut, Level
<1> QED
  BY <1>1, <1>2, <1>3, <1>4, <1>5, <1>6, <1>7, <1>8

\* Every step preserves it.
LEMMA InvNext == IInv /\ [Next]_vars => IInv'
<1> SUFFICES ASSUME IInv, [Next]_vars PROVE IInv'
  OBVIOUS
<1>1. CASE UNCHANGED vars
  BY <1>1 DEF vars, IInv, TypeOK, Known, Private, Left, Level, LogoutMeansRevoked,
              LiveIsAccounted, WholeUnlessCut, Holds, Rest, Asking, content, server
<1>2. ASSUME NEW c \in Commands,
             \/ LoginBegin(c) \/ Register(c) \/ LoginFails(c)
             \/ \E d \in Devices : Enroll(c, d) \/ EnrollLost(c, d)
             \/ SaveFails(c) \/ \E n \in Lengths : SaveBegin(c, n)
             \/ SaveEnd(c) \/ SaveCut(c) \/ SaveLost(c)
      PROVE  IInv'
  BY <1>2, LoginBeginInv, RegisterInv, LoginFailsInv, EnrollInv, EnrollLostInv,
     SaveFailsInv, SaveBeginInv, SaveEndInv, SaveCutInv, SaveLostInv, SaveLostInv
<1>3. ASSUME NEW c \in Commands,
             \/ Use(c) \/ Leave(c) \/ \E d \in Devices : Kick(c, d)
             \/ Arrive(c) \/ Revoke(c) \/ Answered(c) \/ Fails(c) \/ Drop(c)
             \/ Clear(c) \/ ClearFails(c)
      PROVE  IInv'
  BY <1>3, UseInv, LeaveInv, KickInv, ArriveInv, RevokeInv, AnsweredInv, FailsInv,
     DropInv, ClearInv, ClearFailsInv
<1>4. ASSUME (\E d \in Devices : RevokedElsewhere(d)) \/ RemoveByHand
      PROVE  IInv'
  BY <1>4, RevokedElsewhereInv, RemoveByHandInv
<1> QED
  BY <1>1, <1>2, <1>3, <1>4 DEF Next

\* The inductive invariant holds always.
LEMMA InvAlways == Spec => []IInv
<1> QED
  BY InvInit, InvNext, PTL DEF Spec

\* The values of the file, the commands and the server are always of their
\* types, and a command that uses or saves a device has one.
THEOREM TypeCorrect == Spec => []TypeOK
<1>1. IInv => TypeOK
  BY DEF IInv
<1> QED
  BY <1>1, InvAlways, PTL

\* Whatever overlaps, fails or is cut off, no usable token is dropped but in
\* the six ways that forgotten records.
THEOREM LiveIsAccountedAlways == Spec => []LiveIsAccounted
<1>1. IInv => LiveIsAccounted
  BY DEF IInv
<1> QED
  BY <1>1, InvAlways, PTL

\* A logout reported done has killed the token of its device, and neither a late
\* save nor one that is cut off brings the device back into the file.
THEOREM LogoutMeansRevokedAlways == Spec => []LogoutMeansRevoked
<1>1. IInv => LogoutMeansRevoked
  BY DEF IInv
<1> QED
  BY <1>1, InvAlways, PTL

\* Whatever the texts, only a save that runs or was cut off, or saves that
\* overlapped with texts of two lengths, leave a file that is not whole.
THEOREM WholeUnlessCutAlways == Spec => []WholeUnlessCut
<1>1. IInv => WholeUnlessCut
  BY DEF IInv
<1> QED
  BY <1>1, InvAlways, PTL
=============================================================================
