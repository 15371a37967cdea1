------------------------ MODULE UploadBucketProofs --------------------------
(***************************************************************************)
(* What TLAPS proves of UploadBucket for every set of accounts, windows    *)
(* and clients, every way of using the bucket and any number of writes,    *)
(* commands and crashes.                                                   *)
(***************************************************************************)
EXTENDS UploadBucket, TLAPS

Objects == [stamp : Int, filmed : Int, write : Nat]
Commands ==
  [kind : {"", "sweep", "forget", "migrate"}, account : Place, days : Nat, now : Nat,
   seen : Nat, todo : SUBSET Name, step : {"", "look", "copy", "confirm", "delete"},
   strayed : BOOLEAN]
Links == [name : Account \X FileName, expires : Int]

(***************************************************************************)
(* The types, and what a command holds: a deletion names the account's own *)
(* objects and nothing else, a migration names objects at the root.        *)
(***************************************************************************)
Types ==
  /\ habit \in Habits
  /\ bucket \in [Name -> Objects]
  /\ op \in [Client -> Commands]
  /\ links \subseteq Links
  /\ erased \subseteq FileName
  /\ {clock, writes, commands, strays, crashes} \subseteq Nat

Deleting(c) == op[c].kind \in {"sweep", "forget"}

Owned ==
  \A c \in Client :
    /\ Deleting(c) => op[c].account \in Account /\ \A n \in op[c].todo : n[1] = op[c].account
    /\ op[c].kind = "migrate" => op[c].account \in Account /\ \A n \in op[c].todo : n[1] = Legacy

Numbered ==
  /\ \A n \in Name : bucket[n].write <= writes
  /\ \A c \in Client : op[c].seen <= writes

BucketType == Types /\ Owned /\ Numbered

-----------------------------------------------------------------------------
(* Lemmas about the operators.                                             *)

\* The object a migration moves is one of those it has left.
LEMMA FirstIsOne ==
    ASSUME NEW S, S # {}
    PROVE  First(S) \in S
  BY DEF First

\* Every habit is a record of the kind the model takes.
LEMMA HabitType ==
    ASSUME habit \in Habits
    PROVE  /\ habit.days \subseteq Nat /\ habit.link \in Nat /\ habit.skew \in Nat
           /\ habit.careful \in BOOLEAN
  BY HabitsAssumption

\* Nothing, and nobody doing anything, are values like the others.
LEMMA EmptyTypes ==
    Absent \in Objects /\ NoOp \in Commands
  BY PlaceAssumption DEF Absent, NoOp, Objects, Commands, Place

\* A plan made from a listing names the account's own objects, and a listing
\* that strays leaves no plan.
LEMMA PlanIsOwn ==
    ASSUME NEW account \in Account, NEW listed \in SUBSET Name
    PROVE  /\ Verified(listed, account) \in SUBSET listed
           /\ \A n \in Verified(listed, account) : n[1] = account
           /\ (\E n \in listed : n[1] # account) => Verified(listed, account) = {}
  BY DEF Verified

\* What the bucket answers is the account's own, and whatever strays in has
\* another place.
LEMMA AnswersAre ==
    ASSUME NEW account \in Account, NEW listed \in Answers(account)
    PROVE  /\ listed \in SUBSET Name
           /\ Under(account) \subseteq listed
           /\ \A n \in listed : Here(n)
           /\ listed # Under(account) => \E n \in listed : n[1] # account
  BY DEF Answers, Under

\* A command that starts to delete is a command, and holds its own names only.
LEMMA StartType ==
    ASSUME BucketType, NEW c \in Client, NEW account \in Account,
           NEW kind \in {"sweep", "forget"}, NEW days \in Nat,
           NEW listed \in Answers(account), NEW due \in SUBSET Verified(listed, account),
           StartDeleting(c, account, kind, days, listed, due), UNCHANGED habit
    PROVE  BucketType'
  <1> DEFINE on == [NoOp EXCEPT !.kind = kind, !.account = account, !.days = days,
                                !.now = clock, !.seen = writes, !.step = "delete",
                                !.todo = due, !.strayed = (listed # Under(account))]
  <1>1. due \in SUBSET Name /\ \A n \in due : n[1] = account
    BY AnswersAre, PlanIsOwn
  <1>2. clock \in Nat /\ writes \in Nat
    BY DEF BucketType, Types
  <1>3. on \in Commands
    BY <1>1, <1>2 DEF NoOp, Commands, Place
  <1>4. on.kind = kind /\ on.account = account /\ on.todo = due /\ on.seen = writes
    BY DEF NoOp
  <1>5. op' = [op EXCEPT ![c] = on]
    BY DEF StartDeleting
  <1> HIDE DEF on
  <1>6. op' \in [Client -> Commands]
    BY <1>3, <1>5 DEF BucketType, Types
  <1>7. commands' \in Nat /\ strays' \in Nat
    BY DEF StartDeleting, BucketType, Types
  <1>8. Types'
    BY <1>6, <1>7 DEF StartDeleting, BucketType, Types
  <1>9. Owned'
    BY <1>1, <1>4, <1>5, <1>6 DEF BucketType, Types, Owned, Deleting
  <1>10. Numbered'
    BY <1>2, <1>4, <1>5, <1>6 DEF BucketType, Types, Numbered, StartDeleting
  <1> QED
    BY <1>8, <1>9, <1>10 DEF BucketType

-----------------------------------------------------------------------------
(* Type correctness, and whose names a command holds.                      *)

\* A command that is over, however it ended, holds nothing.
LEMMA OverType ==
    ASSUME BucketType, NEW c \in Client, op' = [op EXCEPT ![c] = NoOp]
    PROVE  /\ op' \in [Client -> Commands]
           /\ Owned'
           /\ \A d \in Client : op'[d].seen <= writes
  <1>1. op' \in [Client -> Commands]
    BY EmptyTypes DEF BucketType, Types
  <1>2. Owned'
    BY <1>1 DEF BucketType, Types, Owned, Deleting, NoOp
  <1>3. NoOp.seen = 0 /\ writes \in Nat
    BY DEF NoOp, BucketType, Types
  <1>4. \A d \in Client : op'[d].seen <= writes
    BY <1>3 DEF BucketType, Types, Numbered
  <1> QED
    BY <1>1, <1>2, <1>4

\* A command that goes on, with no more left to do than before, keeps to its
\* own names.
LEMMA GoOnType ==
    ASSUME BucketType, NEW c \in Client, NEW todo \in SUBSET op[c].todo,
           NEW step \in {"look", "copy", "confirm", "delete", ""},
           op' = [op EXCEPT ![c].todo = todo, ![c].step = step]
    PROVE  /\ op' \in [Client -> Commands]
           /\ Owned'
           /\ \A d \in Client : op'[d].seen <= writes
  <1>1. op[c] \in Commands
    BY DEF BucketType, Types
  <1>2. op' \in [Client -> Commands]
    BY <1>1 DEF BucketType, Types, Commands
  <1>3. \A d \in Client : /\ op'[d].kind = op[d].kind /\ op'[d].account = op[d].account
                          /\ op'[d].seen = op[d].seen /\ op'[d].todo \subseteq op[d].todo
    BY <1>1 DEF BucketType, Types, Commands
  <1>4. Owned'
    BY <1>3 DEF BucketType, Owned, Deleting
  <1>5. \A d \in Client : op'[d].seen <= writes
    BY <1>3 DEF BucketType, Numbered
  <1> QED
    BY <1>2, <1>4, <1>5

\* The step forms the two lemmas above are used in.
LEMMA StepForms ==
    ASSUME BucketType, NEW c \in Client
    PROVE  /\ \A step \in {"look", "copy", "confirm", "delete"} :
                [op EXCEPT ![c].step = step]
                  = [op EXCEPT ![c].todo = op[c].todo, ![c].step = step]
           /\ \A n \in Name :
                [op EXCEPT ![c].todo = @ \ {n}]
                  = [op EXCEPT ![c].todo = op[c].todo \ {n}, ![c].step = op[c].step]
  <1>1. op \in [Client -> Commands] /\ op[c] \in Commands
    BY DEF BucketType, Types
  <1> QED
    BY <1>1 DEF Commands

\* What a step that writes leaves: a new object under one name, counted.
LEMMA WriteType ==
    ASSUME BucketType, NEW n \in Name, NEW stamp \in Int, NEW filmed \in Int,
           writes' = writes + 1,
           bucket' = [bucket EXCEPT ![n] =
                        [stamp |-> stamp, filmed |-> filmed, write |-> writes + 1]]
    PROVE  /\ bucket' \in [Name -> Objects] /\ writes' \in Nat
           /\ \A m \in Name : bucket'[m].write <= writes'
  <1>1. bucket \in [Name -> Objects] /\ writes \in Nat
    BY DEF BucketType, Types
  <1>2. [stamp |-> stamp, filmed |-> filmed, write |-> writes + 1] \in Objects
    BY <1>1 DEF Objects
  <1>3. \A m \in Name : bucket[m] \in Objects /\ bucket[m].write <= writes
    BY <1>1 DEF BucketType, Numbered
  <1>4. ASSUME NEW m \in Name PROVE bucket'[m].write <= writes'
    BY <1>1, <1>3 DEF Objects
  <1> QED
    BY <1>1, <1>2, <1>4

\* What a step that takes an object away leaves.
LEMMA RemoveType ==
    ASSUME BucketType, NEW n \in Name, bucket' = [bucket EXCEPT ![n] = Absent]
    PROVE  bucket' \in [Name -> Objects] /\ \A m \in Name : bucket'[m].write <= writes
  <1>1. bucket \in [Name -> Objects] /\ writes \in Nat
    BY DEF BucketType, Types
  <1>2. Absent \in Objects /\ Absent.write = 0
    BY EmptyTypes DEF Absent
  <1>3. \A m \in Name : bucket[m].write <= writes
    BY DEF BucketType, Numbered
  <1>4. ASSUME NEW m \in Name PROVE bucket'[m].write <= writes
    BY <1>1, <1>2, <1>3
  <1> QED
    BY <1>1, <1>2, <1>4

\* Where a migration is, it has a name at the root in hand, and a place in the
\* account's space for it.
LEMMA MovingType ==
    ASSUME BucketType, NEW c \in Client, op[c].kind = "migrate", op[c].todo # {}
    PROVE  /\ Moving(c) \in op[c].todo /\ Moving(c) \in Name /\ Moving(c)[1] = Legacy
           /\ Moving(c)[2] \in FileName
           /\ Dest(c) \in Name /\ Dest(c)[1] \in Account /\ Dest(c)[2] = Moving(c)[2]
           /\ Dest(c) = <<op[c].account, Moving(c)[2]>>
           /\ Moving(c) = <<Legacy, Moving(c)[2]>>
  <1>1. Moving(c) \in op[c].todo
    BY FirstIsOne DEF Moving
  <1>2. op[c].todo \in SUBSET Name
    BY DEF BucketType, Types, Commands
  <1>3. Moving(c) \in Name /\ Moving(c)[1] = Legacy /\ op[c].account \in Account
    BY <1>1, <1>2 DEF BucketType, Owned
  <1>4. Moving(c)[2] \in FileName /\ Moving(c) = <<Legacy, Moving(c)[2]>>
    BY <1>3 DEF Name
  <1>5. Dest(c) = <<op[c].account, Moving(c)[2]>>
    BY DEF Dest, DestinationFor
  <1> QED
    BY <1>1, <1>3, <1>4, <1>5 DEF Name, Place

\* The bucket begins empty, with nobody doing anything.
LEMMA TypeInit == BucketInit => BucketType
  <1> SUFFICES ASSUME BucketInit PROVE BucketType
    OBVIOUS
  <1>1. Absent.write = 0 /\ NoOp.seen = 0 /\ NoOp.kind = ""
    BY DEF Absent, NoOp
  <1>2. Types
    BY EmptyTypes DEF BucketInit, Types
  <1>3. \A c \in Client : op[c].kind = "" /\ op[c].seen = 0
    BY <1>1 DEF BucketInit
  <1>4. Owned
    BY <1>3 DEF Owned, Deleting
  <1>5. writes = 0 /\ \A n \in Name : bucket[n].write = 0
    BY <1>1 DEF BucketInit
  <1>6. ASSUME NEW n \in Name PROVE bucket[n].write <= writes
    BY <1>5
  <1>7. ASSUME NEW c \in Client PROVE op[c].seen <= writes
    <2>1. op[c].seen = 0
      BY <1>3
    <2> QED
      BY <1>5, <2>1
  <1> QED
    BY <1>2, <1>4, <1>6, <1>7 DEF BucketType, Numbered

\* Every step keeps the types, the numbering of the writes, and every command
\* to its own names.
LEMMA TypeStep == BucketType /\ [BucketNext]_bucketVars => BucketType'
  <1> SUFFICES ASSUME BucketType, [BucketNext]_bucketVars PROVE BucketType'
    OBVIOUS
  <1>1. /\ habit \in Habits /\ bucket \in [Name -> Objects] /\ op \in [Client -> Commands]
        /\ links \subseteq Links /\ erased \subseteq FileName
        /\ clock \in Nat /\ writes \in Nat /\ commands \in Nat
        /\ strays \in Nat /\ crashes \in Nat
    BY DEF BucketType, Types
  <1>2. \A n \in Name : bucket[n] \in Objects
    BY <1>1
  <1>3. \A c \in Client : op[c] \in Commands /\ op[c].todo \in SUBSET Name
    BY <1>1 DEF Commands
  <1>4. CASE UNCHANGED bucketVars
    BY <1>4 DEF bucketVars, counts, BucketType, Types, Owned, Numbered, Deleting
  <1> SUFFICES ASSUME BucketStep, UNCHANGED habit PROVE BucketType'
    BY <1>4 DEF BucketNext
  <1>5. ASSUME NEW p \in Place, NEW w \in FileName, Upload(p, w) PROVE BucketType'
    <2>1. PICK ahead \in 0..habit.skew :
            bucket' = [bucket EXCEPT ![<<p, w>>] =
                         [stamp |-> clock + ahead, filmed |-> clock, write |-> writes + 1]]
      BY <1>5 DEF Upload
    <2>2. clock + ahead \in Int /\ clock \in Int /\ <<p, w>> \in Name
      BY <1>1, HabitType DEF Name
    <2>3. /\ writes' = writes + 1
          /\ UNCHANGED <<op, links, erased, clock, commands, strays, crashes>>
      BY <1>5 DEF Upload
    <2>4. /\ bucket' \in [Name -> Objects] /\ writes' \in Nat
          /\ \A m \in Name : bucket'[m].write <= writes'
      BY <2>1, <2>2, <2>3, WriteType
    <2>5. \A c \in Client : op[c].seen \in Nat /\ op[c].seen <= writes
      BY <1>3 DEF BucketType, Numbered, Commands
    <2>6. \A c \in Client : op'[c].seen <= writes'
      BY <1>1, <2>3, <2>5
    <2> QED
      BY <1>1, <2>3, <2>4, <2>6 DEF BucketType, Types, Owned, Numbered, Deleting
  <1>6. ASSUME NEW c \in Client, Sweep(c) PROVE BucketType'
    <2> PICK account \in Account, days \in habit.days :
            \E listed \in Answers(account) :
              StartDeleting(c, account, "sweep", days, listed,
                            DueForDeletion(listed, account, clock, days))
      BY <1>6 DEF Sweep
    <2>1. PICK listed \in Answers(account) :
            StartDeleting(c, account, "sweep", days, listed,
                          DueForDeletion(listed, account, clock, days))
      OBVIOUS
    <2>2. days \in Nat
      BY <1>1, HabitType
    <2>3. DueForDeletion(listed, account, clock, days) \in SUBSET Verified(listed, account)
      BY DEF DueForDeletion
    <2> QED
      BY <2>1, <2>2, <2>3, StartType
  <1>7. ASSUME NEW c \in Client, ForgetAccount(c) PROVE BucketType'
    <2> PICK account \in Account :
            \E listed \in Answers(account) :
              StartDeleting(c, account, "forget", 0, listed, EverythingIn(listed, account))
      BY <1>7 DEF ForgetAccount
    <2>1. PICK listed \in Answers(account) :
            StartDeleting(c, account, "forget", 0, listed, EverythingIn(listed, account))
      OBVIOUS
    <2>2. EverythingIn(listed, account) \in SUBSET Verified(listed, account)
      BY DEF EverythingIn
    <2> QED
      BY <2>1, <2>2, StartType
  <1>8. ASSUME NEW c \in Client, MigrateAccount(c) PROVE BucketType'
    <2>1. PICK account \in Migrators :
            op' = [op EXCEPT ![c] =
                     [NoOp EXCEPT !.kind = "migrate", !.account = account, !.now = clock,
                                  !.seen = writes, !.todo = Under(Legacy), !.step = "look"]]
      BY <1>8 DEF MigrateAccount
    <2> DEFINE on == [NoOp EXCEPT !.kind = "migrate", !.account = account, !.now = clock,
                                  !.seen = writes, !.todo = Under(Legacy), !.step = "look"]
    <2>2. account \in Account /\ account \in Place
      BY PlaceAssumption DEF Place
    <2>3. on.kind = "migrate" /\ on.account = account /\ on.todo = Under(Legacy) /\ on.seen = writes
      BY DEF NoOp
    <2>4. Under(Legacy) \in SUBSET Name /\ \A n \in Under(Legacy) : n[1] = Legacy
      BY DEF Under
    <2>5. on \in Commands
      BY <1>1, <2>2, <2>4 DEF NoOp, Commands
    <2>6. op' = [op EXCEPT ![c] = on]
      BY <2>1
    <2> HIDE DEF on
    <2>7. op' \in [Client -> Commands]
      BY <1>1, <2>5, <2>6
    <2>8. Owned'
      BY <1>1, <2>2, <2>3, <2>4, <2>6 DEF BucketType, Owned, Deleting
    <2>9. \A d \in Client : op'[d].seen <= writes
      BY <1>1, <2>3, <2>6 DEF BucketType, Numbered
    <2> QED
      BY <1>1, <1>8, <2>7, <2>8, <2>9 DEF MigrateAccount, BucketType, Types, Numbered
  <1>9. ASSUME NEW c \in Client, DeleteNext(c) PROVE BucketType'
    <2>1. PICK n \in op[c].todo :
            /\ bucket' = [bucket EXCEPT ![n] = Absent]
            /\ op' = [op EXCEPT ![c].todo = @ \ {n}]
            /\ erased' = erased \cup {n[2]}
      BY <1>9 DEF DeleteNext
    <2>2. n \in Name /\ n[2] \in FileName
      BY <1>3 DEF Name
    <2>3. op' = [op EXCEPT ![c].todo = op[c].todo \ {n}, ![c].step = op[c].step]
      BY <2>1, <2>2, StepForms
    <2>4. op[c].step \in {"look", "copy", "confirm", "delete", ""}
      BY <1>3 DEF Commands
    <2>5. op' \in [Client -> Commands] /\ Owned' /\ \A d \in Client : op'[d].seen <= writes
      BY <2>3, <2>4, GoOnType
    <2>6. bucket' \in [Name -> Objects] /\ \A m \in Name : bucket'[m].write <= writes
      BY <2>1, <2>2, RemoveType
    <2> QED
      BY <1>1, <1>9, <2>1, <2>2, <2>5, <2>6
         DEF DeleteNext, counts, BucketType, Types, Numbered
  <1>10. ASSUME NEW c \in Client, op' = [op EXCEPT ![c] = NoOp],
                UNCHANGED <<bucket, links, erased, clock, writes, commands, strays>>,
                crashes' \in Nat
         PROVE  BucketType'
    <2>1. op' \in [Client -> Commands] /\ Owned' /\ \A d \in Client : op'[d].seen <= writes
      BY <1>10, OverType
    <2> QED
      BY <1>1, <1>10, <2>1 DEF BucketType, Types, Numbered
  <1>11. ASSUME NEW c \in Client, DeleteMissing(c) \/ Return(c) \/ MoveFails(c) \/ Crash(c)
         PROVE  BucketType'
    <2>1. op' = [op EXCEPT ![c] = NoOp]
      BY <1>11 DEF DeleteMissing, Return, MoveFails, Crash
    <2>2. UNCHANGED <<bucket, links, erased, clock, writes, commands, strays>>
      BY <1>11 DEF DeleteMissing, Return, MoveFails, Crash, counts
    <2>3. crashes' = crashes \/ crashes' = crashes + 1
      BY <1>11 DEF DeleteMissing, Return, MoveFails, Crash, counts
    <2>4. crashes' \in Nat
      BY <1>1, <2>3
    <2> QED
      BY <1>10, <2>1, <2>2, <2>4
  <1>12. ASSUME NEW c \in Client, NEW step \in {"look", "copy", "confirm", "delete"},
                GoTo(c, step)
         PROVE  op' \in [Client -> Commands] /\ Owned' /\ \A d \in Client : op'[d].seen <= writes
    <2>1. op' = [op EXCEPT ![c].todo = op[c].todo, ![c].step = step]
      BY <1>12, StepForms DEF GoTo
    <2> QED
      BY <2>1, GoOnType
  <1>13. ASSUME NEW c \in Client, Look(c) \/ CopyLost(c) \/ Confirm(c) PROVE BucketType'
    <2>1. PICK step \in {"look", "copy", "confirm", "delete"} : GoTo(c, step)
      BY <1>13 DEF Look, CopyLost, Confirm
    <2>2. /\ UNCHANGED <<bucket, links, erased, clock, writes, commands, strays>>
          /\ crashes' \in Nat
      BY <1>1, <1>13 DEF Look, CopyLost, Confirm, counts
    <2>3. op' \in [Client -> Commands] /\ Owned' /\ \A d \in Client : op'[d].seen <= writes
      BY <2>1, <1>12
    <2>4. Numbered'
      BY <2>2, <2>3 DEF BucketType, Numbered
    <2> QED
      BY <1>1, <2>2, <2>3, <2>4 DEF BucketType, Types
  <1>14. ASSUME NEW c \in Client, Copy(c) PROVE BucketType'
    <2>1. Moving(c) \in Name /\ Dest(c) \in Name
      BY <1>14, MovingType DEF Copy, At
    <2>2. bucket[Moving(c)].filmed \in Int /\ clock \in Int
      BY <1>1, <1>2, <2>1 DEF Objects
    <2>3. /\ bucket' \in [Name -> Objects] /\ writes' \in Nat
          /\ \A m \in Name : bucket'[m].write <= writes'
      BY <1>14, <2>1, <2>2, WriteType DEF Copy
    <2>4. op' \in [Client -> Commands] /\ Owned' /\ \A d \in Client : op'[d].seen <= writes
      BY <1>12, <1>14 DEF Copy
    <2>5. \A d \in Client : op'[d].seen \in Nat
      BY <2>4 DEF Commands
    <2>6. \A d \in Client : op'[d].seen <= writes'
      BY <1>1, <1>14, <2>4, <2>5 DEF Copy
    <2> QED
      BY <1>1, <1>14, <2>3, <2>4, <2>6 DEF Copy, BucketType, Types, Numbered
  <1>15. ASSUME NEW c \in Client, DeleteOld(c) PROVE BucketType'
    <2>1. Moving(c) \in Name
      BY <1>15, MovingType DEF DeleteOld, At
    <2>2. op' \in [Client -> Commands] /\ Owned' /\ \A d \in Client : op'[d].seen <= writes
      BY <1>15, GoOnType DEF DeleteOld
    <2>3. bucket' \in [Name -> Objects] /\ \A m \in Name : bucket'[m].write <= writes
      BY <1>15, <2>1, RemoveType DEF DeleteOld
    <2> QED
      BY <1>1, <1>15, <2>2, <2>3 DEF DeleteOld, counts, BucketType, Types, Numbered
  <1>16. ASSUME NEW account \in Account, NEW w \in FileName, NEW days \in habit.days,
                NEW requested \in 1..habit.link, SignObject(account, w, days, requested)
         PROVE  BucketType'
    <2> DEFINE n == <<account, w>>
    <2>1. n \in Name /\ n \in Account \X FileName /\ days \in Nat /\ requested \in Int
      BY <1>1, HabitType DEF Name, Place
    <2>2. clock + LinkLifetime(bucket[n], clock, days, requested) \in Int
      BY <1>1, <1>2, <2>1 DEF LinkLifetime, Least, DeletionDeadline, Objects
    <2>3. links' \subseteq Links
      BY <1>1, <1>16, <2>1, <2>2 DEF SignObject, Links
    <2> QED
      BY <1>1, <1>16, <2>3 DEF SignObject, counts, BucketType, Types, Owned, Numbered, Deleting
  <1>17. CASE Tick
    BY <1>1, <1>17 DEF Tick, counts, BucketType, Types, Owned, Numbered, Deleting
  <1> QED
    BY <1>5, <1>6, <1>7, <1>8, <1>9, <1>11, <1>13, <1>14, <1>15, <1>16, <1>17
       DEF BucketStep, Proceed

\* Type correctness, for the commands and for what they hold: whatever runs
\* beside what, a deletion holds names of its own account only and a migration
\* holds names at the root only (app.retention, app.tenant_migration).
THEOREM BucketTypeCorrect == BucketSpec => []BucketType
  BY TypeInit, TypeStep, PTL DEF BucketSpec

-----------------------------------------------------------------------------
(* What a step may do to an object, and what it may do to a command: the   *)
(* two lemmas every property below rests on.                               *)

\* An object that is written is there, and is the newest.
LEMMA WrittenIsHere ==
    ASSUME BucketType, NEW stamp, NEW filmed
    PROVE  [stamp |-> stamp, filmed |-> filmed, write |-> writes + 1] # Absent
  <1>1. writes \in Nat
    BY DEF BucketType, Types
  <1>2. [stamp |-> stamp, filmed |-> filmed, write |-> writes + 1].write # Absent.write
    BY <1>1 DEF Absent
  <1> QED
    BY <1>2

\* What becomes of the object under a name: nothing; a new one is put there,
\* by an upload or by a migration's copy; a deletion takes it; or a migration
\* that has confirmed its copy does.
Kept(n) == bucket'[n] = bucket[n]
Written(n) ==
  /\ bucket'[n] # Absent /\ bucket'[n].write = writes + 1
  /\ clock <= bucket'[n].stamp /\ bucket'[n].stamp <= clock + habit.skew
  /\ habit.careful => ~Here(n) \/ \E c \in Client : At(c, "copy")
Taken(n) ==
  /\ bucket'[n] = Absent /\ n[2] \in erased'
  /\ \E c \in Client : /\ Deleting(c) /\ n \in op[c].todo
                      /\ op' = [op EXCEPT ![c].todo = @ \ {n}]
MovedAway(n) ==
  bucket'[n] = Absent /\ \E c \in Client : At(c, "delete") /\ n = Moving(c)

LEMMA ObjectStep ==
    ASSUME BucketType, [BucketNext]_bucketVars, NEW m \in Name
    PROVE  /\ Kept(m) \/ Written(m) \/ Taken(m) \/ MovedAway(m)
           /\ erased \subseteq erased' /\ clock <= clock'
           /\ UNCHANGED habit
  <1>1. /\ bucket \in [Name -> Objects] /\ op \in [Client -> Commands]
        /\ clock \in Nat /\ writes \in Nat /\ habit \in Habits
    BY DEF BucketType, Types
  <1>2. habit.skew \in Nat
    BY <1>1, HabitType
  <1>3. CASE UNCHANGED bucketVars
    BY <1>1, <1>3 DEF bucketVars, Kept
  <1> SUFFICES ASSUME BucketStep, UNCHANGED habit
               PROVE  /\ Kept(m) \/ Written(m) \/ Taken(m) \/ MovedAway(m)
                      /\ erased \subseteq erased' /\ clock <= clock'
    BY <1>3 DEF BucketNext
  <1>4. ASSUME UNCHANGED <<bucket, erased, clock>>
        PROVE  /\ Kept(m) \/ Written(m) \/ Taken(m) \/ MovedAway(m)
               /\ erased \subseteq erased' /\ clock <= clock'
    BY <1>1, <1>4 DEF Kept
  <1>5. ASSUME NEW p \in Place, NEW w \in FileName, Upload(p, w)
        PROVE  /\ Kept(m) \/ Written(m)
               /\ erased \subseteq erased' /\ clock <= clock'
    <2>1. PICK ahead \in 0..habit.skew :
            bucket' = [bucket EXCEPT ![<<p, w>>] =
                         [stamp |-> clock + ahead, filmed |-> clock, write |-> writes + 1]]
      BY <1>5 DEF Upload
    <2>2. /\ habit.careful => ~Here(<<p, w>>)
          /\ UNCHANGED <<erased, clock>>
      BY <1>5 DEF Upload
    <2>3. CASE m = <<p, w>>
      <3>1. bucket'[m] = [stamp |-> clock + ahead, filmed |-> clock, write |-> writes + 1]
        BY <1>1, <2>1, <2>3
      <3>2. bucket'[m] # Absent
        BY <3>1, WrittenIsHere
      <3>3. Written(m)
        BY <1>1, <1>2, <2>2, <2>3, <3>1, <3>2 DEF Written
      <3> QED
        BY <1>1, <2>2, <3>3
    <2>4. CASE m # <<p, w>>
      BY <1>1, <2>1, <2>2, <2>4 DEF Kept
    <2> QED
      BY <2>3, <2>4
  <1>6. ASSUME NEW c \in Client, Copy(c)
        PROVE  /\ Kept(m) \/ Written(m)
               /\ erased \subseteq erased' /\ clock <= clock'
    <2>1. /\ bucket' = [bucket EXCEPT ![Dest(c)] =
                          [stamp |-> clock, filmed |-> bucket[Moving(c)].filmed,
                           write |-> writes + 1]]
          /\ UNCHANGED <<erased, clock>> /\ At(c, "copy")
      BY <1>6 DEF Copy
    <2>2. CASE m = Dest(c)
      <3>1. bucket'[m] = [stamp |-> clock, filmed |-> bucket[Moving(c)].filmed, write |-> writes + 1]
        BY <1>1, <2>1, <2>2
      <3>2. bucket'[m] # Absent
        BY <3>1, WrittenIsHere
      <3>3. Written(m)
        BY <1>1, <1>2, <2>1, <3>1, <3>2 DEF Written
      <3> QED
        BY <1>1, <2>1, <3>3
    <2>3. CASE m # Dest(c)
      BY <1>1, <2>1, <2>3 DEF Kept
    <2> QED
      BY <2>2, <2>3
  <1>7. ASSUME NEW c \in Client, DeleteNext(c)
        PROVE  /\ Kept(m) \/ Taken(m)
               /\ erased \subseteq erased' /\ clock <= clock'
    <2>1. PICK n \in op[c].todo :
            /\ bucket' = [bucket EXCEPT ![n] = Absent]
            /\ op' = [op EXCEPT ![c].todo = @ \ {n}]
            /\ erased' = erased \cup {n[2]}
      BY <1>7 DEF DeleteNext
    <2>2. clock' = clock /\ Deleting(c)
      BY <1>7 DEF DeleteNext, Deleting
    <2>3. CASE m = n
      <3>1. bucket'[m] = Absent /\ m[2] \in erased' /\ m \in op[c].todo
        BY <1>1, <2>1, <2>3
      <3>2. op' = [op EXCEPT ![c].todo = @ \ {m}]
        BY <2>1, <2>3
      <3>3. Taken(m)
        BY <2>2, <3>1, <3>2 DEF Taken
      <3> QED
        BY <1>1, <2>1, <2>2, <3>3
    <2>4. CASE m # n
      BY <1>1, <2>1, <2>2, <2>4 DEF Kept
    <2> QED
      BY <2>3, <2>4
  <1>8. ASSUME NEW c \in Client, DeleteOld(c)
        PROVE  /\ Kept(m) \/ MovedAway(m)
               /\ erased \subseteq erased' /\ clock <= clock'
    <2>1. /\ bucket' = [bucket EXCEPT ![Moving(c)] = Absent]
          /\ UNCHANGED <<erased, clock>> /\ At(c, "delete")
      BY <1>8 DEF DeleteOld
    <2>2. CASE m = Moving(c)
      BY <1>1, <2>1, <2>2 DEF MovedAway
    <2>3. CASE m # Moving(c)
      BY <1>1, <2>1, <2>3 DEF Kept
    <2> QED
      BY <2>2, <2>3
  <1>9. ASSUME NEW c \in Client,
               \/ Sweep(c) \/ ForgetAccount(c) \/ MigrateAccount(c) \/ Crash(c)
               \/ DeleteMissing(c) \/ Return(c) \/ Look(c) \/ CopyLost(c) \/ Confirm(c)
               \/ MoveFails(c)
        PROVE  UNCHANGED <<bucket, erased, clock>>
    BY <1>9 DEF Sweep, ForgetAccount, StartDeleting, MigrateAccount, Crash, DeleteMissing,
                Return, Look, CopyLost, Confirm, MoveFails
  <1>10. ASSUME NEW account \in Account, NEW w \in FileName, NEW days \in habit.days,
                NEW requested \in 1..habit.link, SignObject(account, w, days, requested)
         PROVE  UNCHANGED <<bucket, erased, clock>>
    BY <1>10 DEF SignObject
  <1>11. CASE Tick
    BY <1>1, <1>11 DEF Tick, Kept
  <1> QED
    BY <1>4, <1>5, <1>6, <1>7, <1>8, <1>9, <1>10, <1>11 DEF BucketStep, Proceed

\* What becomes of a command: it stays where it is, is over, begins to delete,
\* takes one object away, or is a migration that goes on.
GoesOn(c) ==
  /\ op'[c].kind = "migrate"
  /\ op'[c].strayed = FALSE \/ (op[c].kind = "migrate" /\ op'[c].strayed = op[c].strayed)
  /\ op'[c].step # "delete" \/ Confirm(c)

LEMMA CommandStep ==
    ASSUME BucketType, [BucketNext]_bucketVars, NEW d \in Client
    PROVE  \/ op'[d] = op[d] \/ op'[d] = NoOp
           \/ Sweep(d) \/ ForgetAccount(d) \/ DeleteNext(d) \/ GoesOn(d)
  <1>1. op \in [Client -> Commands] /\ op[d] \in Commands
    BY DEF BucketType, Types
  <1> DEFINE Goal == \/ op'[d] = op[d] \/ op'[d] = NoOp
                     \/ Sweep(d) \/ ForgetAccount(d) \/ DeleteNext(d) \/ GoesOn(d)
  <1>2. CASE UNCHANGED op
    BY <1>2
  <1>3. CASE UNCHANGED bucketVars
    BY <1>2, <1>3 DEF bucketVars
  <1>4. ASSUME NEW c \in Client, c # d,
               \/ Sweep(c) \/ ForgetAccount(c) \/ MigrateAccount(c) \/ Crash(c) \/ Proceed(c)
        PROVE  op'[d] = op[d]
    <2>1. CASE Sweep(c) \/ ForgetAccount(c)
      BY <1>1, <1>4, <2>1 DEF Sweep, ForgetAccount, StartDeleting
    <2>2. CASE MigrateAccount(c) \/ Crash(c)
      BY <1>1, <1>4, <2>2 DEF MigrateAccount, Crash
    <2>3. CASE DeleteNext(c) \/ DeleteMissing(c) \/ Return(c) \/ MoveFails(c)
      BY <1>1, <1>4, <2>3 DEF DeleteNext, DeleteMissing, Return, MoveFails
    <2>4. CASE Look(c) \/ Copy(c) \/ CopyLost(c) \/ Confirm(c) \/ DeleteOld(c)
      BY <1>1, <1>4, <2>4 DEF Look, Copy, CopyLost, Confirm, DeleteOld, GoTo
    <2> QED
      BY <1>4, <2>1, <2>2, <2>3, <2>4 DEF Proceed
  <1>5. CASE Crash(d) \/ DeleteMissing(d) \/ Return(d) \/ MoveFails(d)
    BY <1>1, <1>5 DEF Crash, DeleteMissing, Return, MoveFails
  <1>6. CASE MigrateAccount(d)
    <2>1. PICK account \in Migrators :
            op' = [op EXCEPT ![d] =
                     [NoOp EXCEPT !.kind = "migrate", !.account = account, !.now = clock,
                                  !.seen = writes, !.todo = Under(Legacy), !.step = "look"]]
      BY <1>6 DEF MigrateAccount
    <2>2. op'[d] = [NoOp EXCEPT !.kind = "migrate", !.account = account, !.now = clock,
                                !.seen = writes, !.todo = Under(Legacy), !.step = "look"]
      BY <1>1, <2>1
    <2>3. op'[d].kind = "migrate" /\ op'[d].strayed = FALSE /\ op'[d].step = "look"
      BY <2>2 DEF NoOp
    <2> QED
      BY <2>3 DEF GoesOn
  <1>7. ASSUME NEW step, GoTo(d, step), op[d].kind = "migrate", step # "delete" \/ Confirm(d)
        PROVE  GoesOn(d)
    BY <1>1, <1>7 DEF GoTo, GoesOn, Commands
  <1>8. CASE Look(d) \/ Copy(d) \/ CopyLost(d) \/ Confirm(d)
    BY <1>7, <1>8 DEF Look, Copy, CopyLost, Confirm, At
  <1>9. CASE DeleteOld(d)
    <2>1. op' = [op EXCEPT ![d].todo = @ \ {Moving(d)}, ![d].step = "look"] /\ op[d].kind = "migrate"
      BY <1>9 DEF DeleteOld, At
    <2> QED
      BY <1>1, <2>1 DEF GoesOn, Commands
  <1>10. ASSUME NEW p \in Place, NEW w \in FileName, Upload(p, w) PROVE UNCHANGED op
    BY <1>10 DEF Upload
  <1>11. ASSUME NEW account \in Account, NEW w \in FileName, NEW days \in habit.days,
                NEW requested \in 1..habit.link, SignObject(account, w, days, requested)
         PROVE  UNCHANGED op
    BY <1>11 DEF SignObject
  <1>12. CASE Tick
    BY <1>2, <1>12 DEF Tick
  <1>13. ASSUME NEW c \in Client,
                Sweep(c) \/ ForgetAccount(c) \/ MigrateAccount(c) \/ Proceed(c) \/ Crash(c)
         PROVE  Goal
    <2>1. CASE c = d
      BY <1>5, <1>6, <1>8, <1>9, <1>13, <2>1 DEF Proceed
    <2>2. CASE c # d
      BY <1>4, <1>13, <2>2
    <2> QED
      BY <2>1, <2>2
  <1> HIDE DEF Goal
  <1>14. CASE BucketStep
    BY <1>2, <1>10, <1>11, <1>12, <1>13, <1>14 DEF BucketStep, Goal
  <1>15. Goal
    BY <1>3, <1>14 DEF BucketNext, Goal
  <1> QED
    BY <1>15 DEF Goal

\* What a deletion that has just begun is going to do: nothing, if the listing
\* strayed, and otherwise everything the account holds, except that a sweep
\* leaves what is not yet at its deadline, and takes nothing else.
LEMMA DeletionBegins ==
    ASSUME BucketType, NEW c \in Client, Sweep(c) \/ ForgetAccount(c), UNCHANGED habit
    PROVE  /\ op'[c].kind \in {"sweep", "forget"}
           /\ op'[c].seen = writes /\ op'[c].now = clock
           /\ op'[c].strayed => op'[c].todo = {}
           /\ ~op'[c].strayed =>
                \A n \in Under(op'[c].account) :
                  \/ n \in op'[c].todo
                  \/ op'[c].kind = "sweep" /\ clock < bucket[n].stamp + op'[c].days
           /\ op'[c].kind = "sweep" =>
                /\ op'[c].days \in habit.days
                /\ \A n \in op'[c].todo : Here(n) /\ clock >= bucket[n].stamp + op'[c].days
           /\ op'[c].kind = "forget" => ~habit.careful
           /\ habit.careful => Quiet
           /\ UNCHANGED <<bucket, links, erased, clock, writes>>
  <1> DEFINE On(account, kind, days, listed, due) ==
               [NoOp EXCEPT !.kind = kind, !.account = account, !.days = days,
                            !.now = clock, !.seen = writes, !.step = "delete",
                            !.todo = due, !.strayed = (listed # Under(account))]
  <1>1. op \in [Client -> Commands] /\ clock \in Nat /\ writes \in Nat /\ habit \in Habits
        /\ bucket \in [Name -> Objects]
    BY DEF BucketType, Types
  <1>2. ASSUME NEW account \in Account, NEW kind, NEW days \in Nat,
               NEW listed \in Answers(account), NEW due,
               StartDeleting(c, account, kind, days, listed, due)
        PROVE  /\ op'[c].kind = kind /\ op'[c].account = account /\ op'[c].days = days
               /\ op'[c].now = clock /\ op'[c].seen = writes /\ op'[c].todo = due
               /\ op'[c].strayed = (listed # Under(account))
               /\ UNCHANGED <<bucket, links, erased, clock, writes>>
               /\ habit.careful => Quiet
    <2>1. /\ op' = [op EXCEPT ![c] = On(account, kind, days, listed, due)]
          /\ UNCHANGED <<bucket, links, erased, clock, writes>>
          /\ habit.careful => Quiet
      BY <1>2 DEF StartDeleting
    <2>2. op'[c] = On(account, kind, days, listed, due)
      BY <1>1, <2>1
    <2>3. LET on == On(account, kind, days, listed, due)
          IN  /\ on.kind = kind /\ on.account = account /\ on.days = days
              /\ on.now = clock /\ on.seen = writes /\ on.todo = due
              /\ on.strayed = (listed # Under(account))
      BY DEF NoOp
    <2> QED
      BY <2>1, <2>2, <2>3
  <1>3. ASSUME NEW account \in Account, NEW listed \in Answers(account)
        PROVE  /\ listed # Under(account) => Verified(listed, account) = {}
               /\ Verified(listed, account) \subseteq listed
               /\ listed = Under(account) => Verified(listed, account) = Under(account)
               /\ \A n \in listed : Here(n)
    BY AnswersAre, PlanIsOwn DEF Verified, Under
  <1>4. CASE Sweep(c)
    <2> PICK account \in Account, days \in habit.days :
            \E listed \in Answers(account) :
              StartDeleting(c, account, "sweep", days, listed,
                            DueForDeletion(listed, account, clock, days))
      BY <1>4 DEF Sweep
    <2>1. PICK listed \in Answers(account) :
            StartDeleting(c, account, "sweep", days, listed,
                          DueForDeletion(listed, account, clock, days))
      OBVIOUS
    <2> DEFINE due == DueForDeletion(listed, account, clock, days)
    <2>2. days \in Nat
      BY <1>1, HabitType
    <2>3. \A n \in Verified(listed, account) : n \in due <=> clock >= bucket[n].stamp + days
      BY DEF DueForDeletion, IsDue, DeletionDeadline
    <2>4. due \subseteq Verified(listed, account)
      BY DEF DueForDeletion
    <2> HIDE DEF due
    <2>5. /\ op'[c].kind = "sweep" /\ op'[c].account = account /\ op'[c].days = days
          /\ op'[c].now = clock /\ op'[c].seen = writes /\ op'[c].todo = due
          /\ op'[c].strayed = (listed # Under(account))
          /\ UNCHANGED <<bucket, links, erased, clock, writes>>
          /\ habit.careful => Quiet
      BY <1>2, <2>1, <2>2 DEF due
    <2>6. op'[c].strayed => op'[c].todo = {}
      BY <1>3, <2>4, <2>5
    <2>7. \A n \in op'[c].todo : Here(n) /\ clock >= bucket[n].stamp + op'[c].days
      BY <1>3, <2>3, <2>4, <2>5
    <2>8. ASSUME ~op'[c].strayed, NEW n \in Under(account), n \notin due
          PROVE  clock < bucket[n].stamp + days
      <3>1. n \in Verified(listed, account)
        BY <1>3, <2>5, <2>8
      <3>2. ~(clock >= bucket[n].stamp + days)
        BY <2>3, <2>8, <3>1
      <3>3. n \in Name
        BY DEF Under
      <3>4. bucket[n].stamp \in Int
        BY <1>1, <3>3 DEF Objects
      <3> QED
        BY <1>1, <2>2, <3>2, <3>4
    <2>9. op'[c].days \in habit.days
      BY <2>5
    <2> QED
      BY <2>5, <2>6, <2>7, <2>8, <2>9
  <1>5. CASE ForgetAccount(c)
    <2> PICK account \in Account :
            \E listed \in Answers(account) :
              StartDeleting(c, account, "forget", 0, listed, EverythingIn(listed, account))
      BY <1>5 DEF ForgetAccount
    <2>1. PICK listed \in Answers(account) :
            StartDeleting(c, account, "forget", 0, listed, EverythingIn(listed, account))
      OBVIOUS
    <2>2. /\ op'[c].kind = "forget" /\ op'[c].account = account
          /\ op'[c].now = clock /\ op'[c].seen = writes
          /\ op'[c].todo = EverythingIn(listed, account)
          /\ op'[c].strayed = (listed # Under(account))
          /\ UNCHANGED <<bucket, links, erased, clock, writes>>
          /\ habit.careful => Quiet
      BY <1>2, <2>1
    <2>3. op'[c].todo = Verified(listed, account)
      BY <2>2 DEF EverythingIn
    <2>4. op'[c].strayed => op'[c].todo = {}
      BY <1>3, <2>2, <2>3
    <2>5. ~op'[c].strayed => \A n \in Under(op'[c].account) : n \in op'[c].todo
      BY <1>3, <2>2, <2>3
    <2>6. ~habit.careful
      BY <1>5 DEF ForgetAccount
    <2> QED
      BY <2>2, <2>4, <2>5, <2>6
  <1> QED
    BY <1>4, <1>5

\* What one deletion leaves of its command: one name fewer, and the rest.
LEMMA DeletionGoesOn ==
    ASSUME BucketType, NEW c \in Client, DeleteNext(c)
    PROVE  /\ op'[c].kind = op[c].kind /\ op'[c].account = op[c].account
           /\ op'[c].days = op[c].days /\ op'[c].now = op[c].now
           /\ op'[c].seen = op[c].seen /\ op'[c].strayed = op[c].strayed
           /\ op'[c].todo \subseteq op[c].todo
           /\ \A n \in op[c].todo \ op'[c].todo : bucket'[n] = Absent
           /\ \A n \in op'[c].todo : bucket'[n] = bucket[n]
           /\ UNCHANGED <<clock, links>>
  <1>1. op \in [Client -> Commands] /\ op[c] \in Commands /\ bucket \in [Name -> Objects]
    BY DEF BucketType, Types
  <1>2. PICK n \in op[c].todo :
          /\ bucket' = [bucket EXCEPT ![n] = Absent]
          /\ op' = [op EXCEPT ![c].todo = @ \ {n}]
    BY DEF DeleteNext
  <1>3. op[c].todo \in SUBSET Name
    BY <1>1 DEF Commands
  <1>4. op'[c] = [op[c] EXCEPT !.todo = @ \ {n}]
    BY <1>1, <1>2
  <1>5. op'[c].todo = op[c].todo \ {n}
    BY <1>1, <1>4 DEF Commands
  <1>6. /\ op'[c].kind = op[c].kind /\ op'[c].account = op[c].account
        /\ op'[c].days = op[c].days /\ op'[c].now = op[c].now
        /\ op'[c].seen = op[c].seen /\ op'[c].strayed = op[c].strayed
    BY <1>1, <1>4 DEF Commands
  <1>7. UNCHANGED <<clock, links>>
    BY DEF DeleteNext
  <1> QED
    BY <1>1, <1>2, <1>3, <1>5, <1>6, <1>7

-----------------------------------------------------------------------------
(* A listing that strays deletes nothing.                                  *)

Strayed == \A c \in Client : op[c].strayed => op[c].kind # "migrate" /\ op[c].todo = {}

LEMMA StrayedStep ==
    ASSUME BucketType, Strayed, [BucketNext]_bucketVars
    PROVE  Strayed'
  <1> SUFFICES ASSUME NEW c \in Client, op'[c].strayed
               PROVE  op'[c].kind # "migrate" /\ op'[c].todo = {}
    BY DEF Strayed
  <1>1. CASE op'[c] = op[c]
    BY <1>1 DEF Strayed
  <1>2. CASE op'[c] = NoOp
    <2>1. NoOp.strayed = FALSE
      BY DEF NoOp
    <2> QED
      BY <1>2, <2>1
  <1>3. CASE Sweep(c) \/ ForgetAccount(c)
    <2>1. UNCHANGED habit
      BY <1>3 DEF BucketNext, bucketVars
    <2> QED
      BY <1>3, <2>1, DeletionBegins
  <1>4. CASE DeleteNext(c)
    BY <1>4, DeletionGoesOn DEF Strayed
  <1>5. CASE GoesOn(c)
    BY <1>5 DEF GoesOn, Strayed
  <1> QED
    BY <1>1, <1>2, <1>3, <1>4, <1>5, CommandStep

\* A command answered with anybody else's object deletes nothing at all, in any
\* number of accounts and whatever else runs (_verified_names).
THEOREM StrayedListingDeletesNothing == BucketSpec => []StrayStops
  <1>1. BucketInit => BucketType /\ Strayed
    <2>1. NoOp.strayed = FALSE
      BY DEF NoOp
    <2> QED
      BY <2>1, TypeInit DEF BucketInit, Strayed
  <1>2. BucketType /\ Strayed /\ [BucketNext]_bucketVars => (BucketType /\ Strayed)'
    BY TypeStep, StrayedStep
  <1>3. Strayed => StrayStops
    BY DEF Strayed, StrayStops
  <1> QED
    BY <1>1, <1>2, <1>3, PTL DEF BucketSpec

-----------------------------------------------------------------------------
(* A deletion does what it was for.                                        *)

\* An object of its account that a deletion listed is still on its list, is
\* gone, has been written since, or, for a sweep, is not at its deadline.
Seen(c, n) ==
  /\ Deleting(c) /\ ~op[c].strayed
  /\ n[1] = op[c].account /\ Here(n) /\ bucket[n].write <= op[c].seen
Spared(c, n) == op[c].kind = "sweep" /\ op[c].now < bucket[n].stamp + op[c].days

Listed == \A c \in Client, n \in Name : Seen(c, n) => n \in op[c].todo \/ Spared(c, n)

LEMMA ListedStep ==
    ASSUME BucketType, Listed, [BucketNext]_bucketVars
    PROVE  Listed'
  <1> SUFFICES ASSUME NEW c \in Client, NEW n \in Name, Seen(c, n)'
               PROVE  n \in op'[c].todo \/ Spared(c, n)'
    BY DEF Listed
  <1>1. /\ op'[c].kind \in {"sweep", "forget"} /\ ~op'[c].strayed
        /\ n[1] = op'[c].account /\ bucket'[n] # Absent /\ bucket'[n].write <= op'[c].seen
    BY DEF Seen, Deleting, Here
  <1>2. op[c].seen \in Nat /\ writes \in Nat /\ op[c].seen <= writes
        /\ \A d \in Client : op'[d].seen \in Nat
    BY TypeStep DEF BucketType, Types, Numbered, Commands
  <1>3. CASE op'[c] = op[c]
    <2>1. CASE Kept(n)
      BY <1>1, <1>3, <2>1 DEF Kept, Listed, Seen, Spared, Deleting, Here
    <2>2. ~Written(n)
      BY <1>1, <1>2, <1>3 DEF Written
    <2>3. ~Taken(n) /\ ~MovedAway(n)
      BY <1>1 DEF Taken, MovedAway
    <2> QED
      BY <2>1, <2>2, <2>3, ObjectStep
  <1>4. CASE op'[c] = NoOp
    <2>1. NoOp.kind = ""
      BY DEF NoOp
    <2> QED
      BY <1>1, <1>4, <2>1
  <1>5. CASE Sweep(c) \/ ForgetAccount(c)
    <2>1. UNCHANGED habit
      BY <1>5 DEF BucketNext, bucketVars
    <2>2. /\ op'[c].now = clock /\ bucket' = bucket
          /\ \A m \in Under(op'[c].account) :
               \/ m \in op'[c].todo
               \/ op'[c].kind = "sweep" /\ clock < bucket[m].stamp + op'[c].days
      BY <1>1, <1>5, <2>1, DeletionBegins
    <2>3. n \in Under(op'[c].account)
      BY <1>1, <2>2 DEF Under, Here
    <2> QED
      BY <2>2, <2>3 DEF Spared
  <1>6. CASE DeleteNext(c)
    <2>1. /\ op'[c].kind = op[c].kind /\ op'[c].account = op[c].account
          /\ op'[c].days = op[c].days /\ op'[c].now = op[c].now
          /\ op'[c].seen = op[c].seen /\ op'[c].strayed = op[c].strayed
          /\ \A m \in op[c].todo \ op'[c].todo : bucket'[m] = Absent
      BY <1>6, DeletionGoesOn
    <2>2. CASE Kept(n)
      <3>1. Seen(c, n)
        BY <1>1, <2>1, <2>2 DEF Kept, Seen, Deleting, Here
      <3>2. n \in op[c].todo \/ Spared(c, n)
        BY <3>1 DEF Listed
      <3>3. Spared(c, n) => Spared(c, n)'
        BY <2>1, <2>2 DEF Kept, Spared
      <3> QED
        BY <1>1, <2>1, <3>2, <3>3
    <2>3. ~Written(n)
      BY <1>1, <1>2, <2>1 DEF Written
    <2>4. ~Taken(n) /\ ~MovedAway(n)
      BY <1>1 DEF Taken, MovedAway
    <2> QED
      BY <2>2, <2>3, <2>4, ObjectStep
  <1>7. CASE GoesOn(c)
    BY <1>1, <1>7 DEF GoesOn
  <1> QED
    BY <1>3, <1>4, <1>5, <1>6, <1>7, CommandStep

\* A forgetting that gets to its end has left the account nothing it listed, and
\* a sweep nothing that was at its deadline, whatever other commands did between
\* its calls (plan_forget, plan_sweep, delete_objects).
THEOREM DeletionDoesItsWork == BucketSpec => []DeletionIsDone
  <1>1. BucketInit => BucketType /\ Listed
    <2>1. NoOp.kind = ""
      BY DEF NoOp
    <2> QED
      BY <2>1, TypeInit DEF BucketInit, Listed, Seen, Deleting
  <1>2. BucketType /\ Listed /\ [BucketNext]_bucketVars => (BucketType /\ Listed)'
    BY TypeStep, ListedStep
  <1>3. BucketType /\ Listed => DeletionIsDone
    <2> SUFFICES ASSUME BucketType, Listed PROVE DeletionIsDone
      OBVIOUS
    <2>1. ASSUME NEW c \in Client, Deleting(c), op[c].todo = {}, ~op[c].strayed,
                 NEW w \in FileName, bucket[<<op[c].account, w>>] # Absent
          PROVE  LET object == bucket[<<op[c].account, w>>]
                 IN  \/ object.write > op[c].seen /\ ~(object.write <= op[c].seen)
                     \/ op[c].kind = "sweep" /\ op[c].now < object.stamp + op[c].days
      <3> DEFINE n == <<op[c].account, w>>
      <3>1. op[c] \in Commands /\ n \in Name
        BY DEF BucketType, Types, Commands, Name
      <3>2. bucket[n].write \in Nat /\ op[c].seen \in Nat
        BY <3>1 DEF BucketType, Types, Objects, Commands
      <3>3. n[1] = op[c].account /\ Here(n)
        BY <2>1 DEF Here
      <3>4. Seen(c, n) \/ (bucket[n].write > op[c].seen /\ ~(bucket[n].write <= op[c].seen))
        BY <2>1, <3>2, <3>3 DEF Seen
      <3>5. Seen(c, n) => Spared(c, n)
        BY <2>1, <3>1 DEF Listed
      <3> QED
        BY <3>4, <3>5 DEF Spared
    <2>2. ForgetLeavesNothing
      BY <2>1 DEF ForgetLeavesNothing, Deleting
    <2>3. SweepLeavesNothingDue
      BY <2>1 DEF SweepLeavesNothingDue, Deleting
    <2> QED
      BY <2>2, <2>3 DEF DeletionIsDone
  <1> QED
    BY <1>1, <1>2, <1>3, PTL DEF BucketSpec

-----------------------------------------------------------------------------
(* Footage is not lost between the two deletions and the migration.        *)

\* A migration about to delete an old name has footage of that window under the
\* new one, or a retention command has taken it from there.
MoveIsSafe ==
  \A c \in Client : At(c, "delete") => Here(Dest(c)) \/ Moving(c)[2] \in erased

LEMMA MoveIsSafeStep ==
    ASSUME BucketType, MoveIsSafe, [BucketNext]_bucketVars
    PROVE  MoveIsSafe'
  <1> SUFFICES ASSUME NEW c \in Client, At(c, "delete")'
               PROVE  (Here(Dest(c)) \/ Moving(c)[2] \in erased)'
    BY DEF MoveIsSafe
  <1>1. op'[c].kind = "migrate" /\ op'[c].todo # {} /\ op'[c].step = "delete"
    BY DEF At
  <1>2. CASE op'[c] = op[c]
    <2>1. At(c, "delete") /\ op[c].kind = "migrate" /\ op[c].todo # {}
      BY <1>1, <1>2 DEF At
    <2>2. Moving(c)' = Moving(c) /\ Dest(c)' = Dest(c)
      BY <1>2 DEF Moving, Dest
    <2>3. /\ Dest(c) \in Name /\ Dest(c)[1] \in Account
          /\ Dest(c)[2] = Moving(c)[2]
      BY <2>1, MovingType
    <2>4. Here(Dest(c)) \/ Moving(c)[2] \in erased
      BY <2>1 DEF MoveIsSafe
    <2>5. ASSUME MovedAway(Dest(c)) PROVE FALSE
      <3>1. PICK d \in Client : At(d, "delete") /\ Dest(c) = Moving(d)
        BY <2>5 DEF MovedAway
      <3>2. Moving(d)[1] = Legacy
        BY <3>1, MovingType DEF At
      <3> QED
        BY <2>3, <3>1, <3>2, PlaceAssumption
    <2>6. CASE Moving(c)[2] \in erased
      BY <2>2, <2>3, <2>6, ObjectStep
    <2>7. CASE Here(Dest(c))
      <3>1. Kept(Dest(c)) \/ Written(Dest(c)) \/ Taken(Dest(c))
        BY <2>3, <2>5, ObjectStep
      <3>2. bucket'[Dest(c)] # Absent \/ Dest(c)[2] \in erased'
        BY <2>7, <3>1 DEF Kept, Written, Taken, Here
      <3> QED
        BY <2>2, <2>3, <3>2 DEF Here
    <2> QED
      BY <2>4, <2>6, <2>7
  <1>3. op'[c] # NoOp
    <2>1. NoOp.kind = ""
      BY DEF NoOp
    <2> QED
      BY <1>1, <2>1
  <1>4. ~(Sweep(c) \/ ForgetAccount(c))
    <2>1. Sweep(c) \/ ForgetAccount(c) => UNCHANGED habit
      BY DEF BucketNext, bucketVars
    <2> QED
      BY <1>1, <2>1, DeletionBegins
  <1>5. ~DeleteNext(c)
    BY <1>1, DeletionGoesOn DEF DeleteNext
  <1>6. CASE GoesOn(c)
    <2>1. Confirm(c)
      BY <1>1, <1>6 DEF GoesOn
    <2>2. op[c] \in Commands /\ op \in [Client -> Commands]
      BY DEF BucketType, Types
    <2>3. op'[c].todo = op[c].todo /\ op'[c].account = op[c].account
      BY <2>1, <2>2 DEF Confirm, GoTo, Commands
    <2>4. Moving(c)' = Moving(c) /\ Dest(c)' = Dest(c)
      BY <2>3 DEF Moving, Dest
    <2>5. Here(Dest(c)) /\ bucket' = bucket
      BY <2>1 DEF Confirm, CopyConfirmed
    <2> QED
      BY <2>4, <2>5 DEF Here
  <1> QED
    BY <1>2, <1>3, <1>4, <1>5, <1>6, CommandStep

\* Footage that was uploaded stays in the bucket, under one name or another,
\* until a sweep or a forgetting takes a copy of it: no interleaving of uploads,
\* migrations, deletions and crashes leaves a hole (move_objects copies,
\* confirms, and only then deletes).
THEOREM NoInterleavingLosesFootage == BucketSpec => NoHole
  <1>1. BucketInit => BucketType /\ MoveIsSafe
    <2>1. NoOp.kind = ""
      BY DEF NoOp
    <2> QED
      BY <2>1, TypeInit DEF BucketInit, MoveIsSafe, At
  <1>2. BucketType /\ MoveIsSafe /\ [BucketNext]_bucketVars => (BucketType /\ MoveIsSafe)'
    BY TypeStep, MoveIsSafeStep
  <1>3. BucketType /\ MoveIsSafe /\ [BucketNext]_bucketVars =>
          [\A w \in FileName :
             Stored(bucket, w) => Stored(bucket', w) \/ w \in erased']_<<bucket, erased>>
    <2> SUFFICES ASSUME BucketType, MoveIsSafe, [BucketNext]_bucketVars,
                        NEW w \in FileName, NEW p \in Place, bucket[<<p, w>>] # Absent
                 PROVE  Stored(bucket', w) \/ w \in erased'
      BY DEF Stored
    <2> DEFINE n == <<p, w>>
    <2>1. n \in Name /\ n[2] = w /\ Here(n)
      BY DEF Name, Here
    <2>2. CASE Kept(n) \/ Written(n)
      BY <2>1, <2>2 DEF Kept, Written, Here, Stored
    <2>3. CASE Taken(n)
      BY <2>1, <2>3 DEF Taken
    <2>4. CASE MovedAway(n)
      <3>1. PICK c \in Client : At(c, "delete") /\ n = Moving(c)
        BY <2>4 DEF MovedAway
      <3>2. /\ Dest(c) \in Name /\ Dest(c) = <<op[c].account, w>>
            /\ op[c].account \in Account
        BY <2>1, <3>1, MovingType DEF At
      <3>3. Here(Dest(c)) \/ w \in erased
        BY <2>1, <3>1 DEF MoveIsSafe
      <3>4. ASSUME MovedAway(Dest(c)) PROVE FALSE
        <4>1. PICK d \in Client : At(d, "delete") /\ Dest(c) = Moving(d)
          BY <3>4 DEF MovedAway
        <4>2. Moving(d)[1] = Legacy
          BY <4>1, MovingType DEF At
        <4> QED
          BY <3>2, <4>1, <4>2, PlaceAssumption
      <3>5. CASE w \in erased
        BY <2>1, <3>5, ObjectStep
      <3>6. CASE Here(Dest(c))
        <4>1. Kept(Dest(c)) \/ Written(Dest(c)) \/ Taken(Dest(c))
          BY <3>2, <3>4, ObjectStep
        <4>2. bucket'[Dest(c)] # Absent \/ w \in erased'
          BY <3>2, <3>6, <4>1 DEF Kept, Written, Taken, Here
        <4> QED
          BY <3>2, <4>2 DEF Stored, Place
      <3> QED
        BY <3>3, <3>5, <3>6
    <2> QED
      BY <2>1, <2>2, <2>3, <2>4, ObjectStep
  <1> QED
    BY <1>1, <1>2, <1>3, PTL DEF BucketSpec, NoHole

-----------------------------------------------------------------------------
(* Links, where commands run one at a time.                                *)

\* At most one command moves in a step, and one that begins, where the bucket
\* is used carefully, begins when no other is running.
LEMMA OneMoves ==
    ASSUME BucketType, [BucketNext]_bucketVars,
           NEW c \in Client, NEW d \in Client, c # d, op'[c] # op[c]
    PROVE  /\ op'[d] = op[d]
           /\ op[c] # NoOp \/ (habit.careful => Quiet)
  <1>1. op \in [Client -> Commands]
    BY DEF BucketType, Types
  <1>2. ASSUME NEW e \in Client,
               Sweep(e) \/ ForgetAccount(e) \/ MigrateAccount(e) \/ Proceed(e) \/ Crash(e)
        PROVE  /\ \A f \in Client \ {e} : op'[f] = op[f]
               /\ op[e] # NoOp \/ (habit.careful => Quiet)
    <2>1. NoOp.kind = ""
      BY DEF NoOp
    <2>2. CASE Sweep(e) \/ ForgetAccount(e)
      BY <1>1, <2>2 DEF Sweep, ForgetAccount, StartDeleting
    <2>3. CASE MigrateAccount(e) \/ Crash(e)
      BY <1>1, <2>3 DEF MigrateAccount, Crash
    <2>4. CASE DeleteNext(e) \/ DeleteMissing(e) \/ Return(e)
      BY <1>1, <2>1, <2>4 DEF DeleteNext, DeleteMissing, Return
    <2>5. CASE Look(e) \/ Copy(e) \/ CopyLost(e) \/ Confirm(e)
      BY <1>1, <2>1, <2>5 DEF Look, Copy, CopyLost, Confirm, GoTo, At
    <2>6. CASE DeleteOld(e) \/ MoveFails(e)
      BY <1>1, <2>1, <2>6 DEF DeleteOld, MoveFails, At
    <2> QED
      BY <1>2, <2>2, <2>3, <2>4, <2>5, <2>6 DEF Proceed
  <1>3. ASSUME NEW e \in Client,
               Sweep(e) \/ ForgetAccount(e) \/ MigrateAccount(e) \/ Proceed(e) \/ Crash(e)
        PROVE  /\ op'[d] = op[d]
               /\ op[c] # NoOp \/ (habit.careful => Quiet)
    <2>1. e = c
      BY <1>2, <1>3
    <2> QED
      BY <1>2, <1>3, <2>1
  <1>4. op' # op
    OBVIOUS
  <1>5. ~UNCHANGED bucketVars
    BY <1>4 DEF bucketVars
  <1>6. ASSUME NEW p \in Place, NEW w \in FileName PROVE ~Upload(p, w)
    BY <1>4 DEF Upload
  <1>7. ASSUME NEW account, NEW w, NEW days, NEW requested
        PROVE  ~SignObject(account, w, days, requested)
    BY <1>4 DEF SignObject
  <1>8. ~Tick
    BY <1>4 DEF Tick
  <1> QED
    BY <1>3, <1>5, <1>6, <1>7, <1>8 DEF BucketNext, BucketStep

\* Used carefully: one command at a time, no forgetting, and no stamp ahead of
\* the clock.  What a sweep holds is there and at its deadline, and a link that
\* works points at an object it does not outlive.
OneCommand == \A c, d \in Client : op[c] # NoOp /\ op[d] # NoOp => c = d
NoneForgotten == \A c \in Client : op[c].kind # "forget"
NotAhead == \A n \in Name : Here(n) => bucket[n].stamp <= clock
AtDeadline ==
  \A c \in Client : op[c].kind = "sweep" =>
    \A n \in op[c].todo, days \in habit.days : Here(n) /\ bucket[n].stamp + days <= clock
WithinPeriod(link) ==
  clock < link.expires =>
    /\ Here(link.name)
    /\ \A days \in habit.days : link.expires <= bucket[link.name].stamp + days

Carefully ==
  habit.careful =>
    /\ OneCommand /\ NoneForgotten /\ NotAhead /\ AtDeadline
    /\ \A link \in links : WithinPeriod(link)

\* Whoever uses the bucket carefully keeps to one retention period, and the
\* store's stamps do not run ahead of the clock the links are counted from.
OnePeriod ==
  \A h \in Habits : h.careful => h.skew = 0 /\ \E days \in Nat : h.days = {days}

LEMMA CarefullyStep ==
    ASSUME OnePeriod, BucketType, Carefully, [BucketNext]_bucketVars
    PROVE  Carefully'
  <1> SUFFICES ASSUME habit.careful
               PROVE  (/\ OneCommand /\ NoneForgotten /\ NotAhead /\ AtDeadline
                       /\ \A link \in links : WithinPeriod(link))'
    <2>1. UNCHANGED habit
      BY DEF BucketNext, bucketVars
    <2> QED
      BY <2>1 DEF Carefully
  <1>1. UNCHANGED habit
    BY DEF BucketNext, bucketVars
  <1>2. OneCommand /\ NoneForgotten /\ NotAhead /\ AtDeadline /\ \A link \in links : WithinPeriod(link)
    BY DEF Carefully
  <1>3. /\ habit \in Habits /\ clock \in Nat /\ writes \in Nat
        /\ bucket \in [Name -> Objects] /\ op \in [Client -> Commands]
        /\ links \subseteq Links
    BY DEF BucketType, Types
  <1>4. habit.skew = 0 /\ \E days \in Nat : habit.days = {days}
    BY <1>3 DEF OnePeriod
  <1>5. /\ clock' \in Nat /\ bucket' \in [Name -> Objects]
    BY TypeStep DEF BucketType, Types
  <1>6. \A n \in Name : bucket[n].stamp \in Int /\ bucket'[n].stamp \in Int
    BY <1>3, <1>5 DEF Objects
  <1>7. NoOp.kind = ""
    BY DEF NoOp
  <1>8. OneCommand'
    <2> SUFFICES ASSUME NEW c \in Client, NEW d \in Client, op'[c] # NoOp, op'[d] # NoOp, c # d
                 PROVE  FALSE
      BY DEF OneCommand
    <2>1. ASSUME NEW e \in Client, NEW f \in Client, e # f, op'[e] # op[e], op'[f] # NoOp
          PROVE  FALSE
      <3>1. op[f] # NoOp /\ (op[e] # NoOp \/ Quiet)
        BY <2>1, OneMoves
      <3>2. op[f] # NoOp /\ op[e] # NoOp
        BY <3>1 DEF Quiet
      <3> QED
        BY <1>2, <2>1, <3>2 DEF OneCommand
    <2>2. op'[c] = op[c] /\ op'[d] = op[d]
      BY <2>1
    <2> QED
      BY <1>2, <2>2 DEF OneCommand
  <1>9. NoneForgotten'
    <2> SUFFICES ASSUME NEW c \in Client PROVE op'[c].kind # "forget"
      BY DEF NoneForgotten
    <2>1. CASE op'[c] = op[c] \/ op'[c] = NoOp
      BY <1>2, <1>7, <2>1 DEF NoneForgotten
    <2>2. CASE Sweep(c) \/ ForgetAccount(c)
      BY <1>1, <2>2, DeletionBegins
    <2>3. CASE DeleteNext(c)
      BY <1>2, <2>3, DeletionGoesOn DEF NoneForgotten
    <2>4. CASE GoesOn(c)
      BY <2>4 DEF GoesOn
    <2> QED
      BY <2>1, <2>2, <2>3, <2>4, CommandStep
  <1>10. NotAhead'
    <2> SUFFICES ASSUME NEW n \in Name, bucket'[n] # Absent PROVE bucket'[n].stamp <= clock'
      BY DEF NotAhead, Here
    <2>1. clock <= clock' /\ (Kept(n) \/ Written(n))
      BY ObjectStep DEF Taken, MovedAway
    <2>2. CASE Kept(n)
      <3>1. bucket[n].stamp <= clock /\ bucket'[n].stamp = bucket[n].stamp
        BY <1>2, <2>2 DEF NotAhead, Kept, Here
      <3> QED
        BY <1>3, <1>5, <1>6, <2>1, <3>1
    <2>3. CASE Written(n)
      <3>1. bucket'[n].stamp <= clock + 0
        BY <1>4, <2>3 DEF Written
      <3> QED
        BY <1>3, <1>5, <1>6, <2>1, <3>1
    <2> QED
      BY <2>1, <2>2, <2>3
  <1>11. AtDeadline'
    <2> SUFFICES ASSUME NEW c \in Client, op'[c].kind = "sweep",
                        NEW n \in op'[c].todo, NEW days \in habit.days
                 PROVE  bucket'[n] # Absent /\ bucket'[n].stamp + days <= clock'
      BY <1>1 DEF AtDeadline, Here
    <2>1. n \in Name /\ days \in Nat
      <3>1. op'[c] \in Commands
        BY TypeStep DEF BucketType, Types
      <3> QED
        BY <1>3, <3>1, HabitType DEF Commands
    <2>2. ASSUME op[c].kind = "sweep", n \in op[c].todo, bucket'[n] = bucket[n]
          PROVE  bucket'[n] # Absent /\ bucket'[n].stamp + days <= clock'
      <3>1. bucket[n] # Absent /\ bucket[n].stamp + days <= clock /\ clock <= clock'
        BY <1>2, <2>1, <2>2, ObjectStep DEF AtDeadline, Here
      <3> QED
        BY <1>3, <1>5, <1>6, <2>1, <2>2, <3>1
    <2>3. CASE op'[c] = op[c]
      <3>1. op[c].kind = "sweep" /\ n \in op[c].todo /\ op[c] # NoOp
        BY <1>7, <2>3
      <3>2. \A d \in Client : op[d].kind # "" => d = c
        BY <1>2, <1>7, <3>1 DEF OneCommand
      <3>3. ~Written(n)
        <4>1. Here(n)
          BY <1>2, <1>4, <2>1, <3>1 DEF AtDeadline
        <4>2. \A d \in Client : ~At(d, "copy")
          BY <3>1, <3>2 DEF At
        <4> QED
          BY <4>1, <4>2 DEF Written
      <3>4. ~MovedAway(n)
        <4>1. \A d \in Client : ~At(d, "delete")
          BY <3>1, <3>2 DEF At
        <4> QED
          BY <4>1 DEF MovedAway
      <3>5. ~Taken(n)
        <4> SUFFICES ASSUME NEW d \in Client, Deleting(d), n \in op[d].todo,
                            op' = [op EXCEPT ![d].todo = @ \ {n}]
                     PROVE  FALSE
          BY DEF Taken
        <4>1. d = c
          BY <3>2 DEF Deleting
        <4>2. n \notin op'[d].todo
          BY <1>3 DEF Commands
        <4> QED
          BY <3>1, <2>3, <4>1, <4>2
      <3> QED
        BY <2>1, <2>2, <3>1, <3>3, <3>4, <3>5, ObjectStep DEF Kept
    <2>4. op'[c] # NoOp
      BY <1>7
    <2>5. CASE Sweep(c) \/ ForgetAccount(c)
      <3>1. /\ op'[c].days \in habit.days /\ bucket' = bucket /\ clock' = clock
            /\ Here(n) /\ clock >= bucket[n].stamp + op'[c].days
        BY <1>1, <2>5, DeletionBegins
      <3>2. op'[c].days = days
        BY <1>4, <3>1
      <3> QED
        BY <1>3, <1>6, <2>1, <3>1, <3>2 DEF Here
    <2>6. CASE DeleteNext(c)
      BY <2>2, <2>6, DeletionGoesOn
    <2>7. ~GoesOn(c)
      BY DEF GoesOn
    <2> QED
      BY <2>3, <2>4, <2>5, <2>6, <2>7, CommandStep
  <1>12. ASSUME NEW link \in links' PROVE WithinPeriod(link)'
    <2> SUFFICES ASSUME clock' < link.expires, NEW days \in habit.days
                 PROVE  bucket'[link.name] # Absent /\ link.expires <= bucket'[link.name].stamp + days
      BY <1>1, <1>4 DEF WithinPeriod, Here
    <2>1. link \in Links
      BY TypeStep DEF BucketType, Types
    <2>2. link.name \in Name /\ link.name[1] \in Account /\ link.expires \in Int /\ days \in Nat
      BY <1>3, <2>1, HabitType DEF Links, Name, Place
    <2> DEFINE n == link.name
    <2>3. clock <= clock' /\ (Kept(n) \/ Written(n) \/ Taken(n) \/ MovedAway(n))
      BY <2>2, ObjectStep
    <2>4. clock < link.expires
      BY <1>3, <1>5, <2>2, <2>3
    <2>5. CASE link \in links
      <3>1. Here(n) /\ link.expires <= bucket[n].stamp + days
        BY <1>2, <2>4, <2>5 DEF WithinPeriod
      <3>2. CASE Kept(n)
        BY <3>1, <3>2 DEF Kept, Here
      <3>3. CASE Written(n)
        <4>1. bucket[n].stamp <= clock
          BY <1>2, <2>2, <3>1 DEF NotAhead
        <4>2. clock <= bucket'[n].stamp /\ bucket'[n] # Absent
          BY <3>3 DEF Written
        <4> QED
          BY <1>3, <1>6, <2>2, <3>1, <4>1, <4>2
      <3>4. ~Taken(n)
        <4> SUFFICES ASSUME NEW c \in Client, Deleting(c), n \in op[c].todo
                     PROVE  FALSE
          BY DEF Taken
        <4>1. op[c].kind = "sweep"
          BY <1>2 DEF Deleting, NoneForgotten
        <4>2. bucket[n].stamp + days <= clock
          BY <1>2, <4>1 DEF AtDeadline
        <4> QED
          BY <1>3, <1>6, <2>2, <2>4, <3>1, <4>2
      <3>5. ASSUME MovedAway(n) PROVE FALSE
        <4>1. PICK c \in Client : At(c, "delete") /\ n = Moving(c)
          BY <3>5 DEF MovedAway
        <4>2. Moving(c)[1] = Legacy
          BY <4>1, MovingType DEF At
        <4> QED
          BY <2>2, <4>1, <4>2, PlaceAssumption
      <3> QED
        BY <2>3, <3>2, <3>3, <3>4, <3>5
    <2>6. CASE link \notin links
      <3>1. PICK account \in Account, w \in FileName, period \in habit.days, requested \in 1..habit.link :
              SignObject(account, w, period, requested)
        <4>1. links' # links
          BY <2>6
        <4>2. ~UNCHANGED bucketVars
          BY <4>1 DEF bucketVars
        <4>3. ~Tick /\ \A p \in Place, w \in FileName : ~Upload(p, w)
          BY <4>1 DEF Tick, Upload
        <4>4. ASSUME NEW c \in Client, Sweep(c) \/ ForgetAccount(c) PROVE FALSE
          BY <4>1, <4>4 DEF Sweep, ForgetAccount, StartDeleting
        <4>5. ASSUME NEW c \in Client, MigrateAccount(c) \/ Crash(c) PROVE FALSE
          BY <4>1, <4>5 DEF MigrateAccount, Crash
        <4>6. ASSUME NEW c \in Client, Proceed(c) PROVE FALSE
          BY <4>1, <4>6 DEF Proceed, DeleteNext, DeleteMissing, Return, Look, Copy, CopyLost,
                           Confirm, DeleteOld, MoveFails
        <4> QED
          BY <4>2, <4>3, <4>4, <4>5, <4>6 DEF BucketNext, BucketStep
      <3> DEFINE m == <<account, w>>
      <3>2. /\ Here(m) /\ bucket' = bucket
            /\ link.name = m
            /\ link.expires = clock + LinkLifetime(bucket[m], clock, period, requested)
        BY <2>6, <3>1 DEF SignObject
      <3>3. period = days
        BY <1>4
      <3>4. bucket[m].stamp \in Int /\ requested \in Int
        BY <1>6, <2>2, <3>2
      <3>5. LinkLifetime(bucket[m], clock, period, requested) <= bucket[m].stamp + days - clock
        BY <1>3, <2>2, <3>3, <3>4 DEF LinkLifetime, Least, DeletionDeadline
      <3>6. LinkLifetime(bucket[m], clock, period, requested) \in Int
        BY <1>3, <2>2, <3>3, <3>4 DEF LinkLifetime, Least, DeletionDeadline
      <3>7. link.expires <= bucket[m].stamp + days
        BY <1>3, <2>2, <3>2, <3>4, <3>5, <3>6
      <3> QED
        BY <3>2, <3>7 DEF Here
    <2> QED
      BY <2>5, <2>6
  <1> QED
    BY <1>8, <1>9, <1>10, <1>11, <1>12

\* "A link never outlives the object it points at.": nobody holds a working link
\* to nothing, for any accounts, windows and clocks, where one retention period
\* is used, one command runs at a time, no copy is uploaded over itself, nobody
\* asks to be forgotten and stamps do not run ahead (link_lifetime, sign_object).
THEOREM NoLinkOutlives ==
    ASSUME OnePeriod
    PROVE  BucketSpec => []LinkNeverOutlives
  <1>1. BucketInit => BucketType /\ Carefully
    <2>1. NoOp.kind = ""
      BY DEF NoOp
    <2>2. BucketInit => Carefully
      BY <2>1 DEF BucketInit, Carefully, OneCommand, NoneForgotten, NotAhead, AtDeadline, Here
    <2> QED
      BY <2>2, TypeInit
  <1>2. BucketType /\ Carefully /\ [BucketNext]_bucketVars => (BucketType /\ Carefully)'
    BY TypeStep, CarefullyStep
  <1>3. Carefully => LinkNeverOutlives
    BY DEF Carefully, WithinPeriod, LinkNeverOutlives
  <1> QED
    BY <1>1, <1>2, <1>3, PTL DEF BucketSpec

=============================================================================
