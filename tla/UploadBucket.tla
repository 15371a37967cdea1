---------------------------- MODULE UploadBucket ----------------------------
(***************************************************************************)
(* The bucket the copies are uploaded to, and everything that writes to it *)
(* or destroys something in it: uploads of judging and ranking, the sweep  *)
(* and the forgetting of app.retention, the adoption of legacy objects by  *)
(* app.tenant_migration, and the links of app.signed_links.                *)
(*                                                                         *)
(* Each operation is a command of its own: it lists once, decides from the *)
(* listing, and then makes one network call after another, so other        *)
(* commands run between its calls and it can stop after any of them.       *)
(* Deletion has no precondition on what it deletes: it names an object,    *)
(* and an object that is not there is an error that ends the command.      *)
(***************************************************************************)
EXTENDS Integers, FiniteSets

CONSTANTS
  Account,     \* the accounts; each has a prefix nobody else's objects are under
  Legacy,      \* stands for the root, where names carry no account
  FileName,      \* the windows of footage: each is a file name
  Client,      \* processes that run the commands
  Migrators,   \* the accounts `migrate` is run for
  Habits,      \* how the bucket may be used, and the bounds that go with it
  MaxWrites,   \* bound: objects written
  MaxCrashes   \* bound: commands that stop between two calls

ASSUME PlaceAssumption == Legacy \notin Account /\ Migrators \subseteq Account
ASSUME HabitsAssumption ==
  Habits \subseteq
    [days : SUBSET Nat,      \* the retention periods commands are given
     link : Nat,             \* MAX_LINK_SECONDS, in the clock's unit (0: no links)
     careful : BOOLEAN,      \* one command at a time, no copy is uploaded over
                             \* itself and nobody asks to be forgotten
     skew : Nat,             \* how far ahead an upload's stamp can be
     clock : Nat,            \* bound: the clock
     commands : Nat,         \* bound: commands started
     strays : Nat]           \* bound: listings that answer outside their prefix
ASSUME BucketBounds == {MaxWrites, MaxCrashes} \subseteq Nat

Place == Account \cup {Legacy}
Name == Place \X FileName

VARIABLES
  habit,    \* how the bucket is used
  bucket,   \* bucket[n]: the object under n: its stamp, when its footage first
            \* came to the bucket, and which write it is; or Absent
  op,       \* op[c]: the command client c runs, and where it is in it
  links,    \* the signed links handed out
  erased,   \* ghost: the windows a retention command has taken a copy of away
  clock, writes, commands, strays, crashes

counts == <<writes, commands, strays, crashes>>
bucketVars == <<habit, bucket, op, links, erased, clock, counts>>

Absent == [stamp |-> -1, filmed |-> -1, write |-> 0]
NoOp == [kind |-> "", account |-> Legacy, days |-> 0, now |-> 0, seen |-> 0,
         todo |-> {}, step |-> "", strayed |-> FALSE]

Quiet == \A c \in Client : op[c] = NoOp
Here(n) == bucket[n] # Absent
Under(p) == {n \in Name : n[1] = p /\ Here(n)}

BucketInit ==
  /\ habit \in Habits
  /\ bucket = [n \in Name |-> Absent]
  /\ op = [c \in Client |-> NoOp]
  /\ links = {} /\ erased = {}
  /\ clock = 0 /\ writes = 0 /\ commands = 0 /\ strays = 0 /\ crashes = 0

-----------------------------------------------------------------------------
(* upload_to_bucket: under the account's prefix, or at the root without    *)
(* one.  Putting a copy under its own name again replaces it.              *)

Upload(p, w) ==
  /\ writes < MaxWrites
  /\ habit.careful => ~Here(<<p, w>>)
  /\ writes' = writes + 1
  /\ \E ahead \in 0..habit.skew :
       bucket' = [bucket EXCEPT ![<<p, w>>] =
                    [stamp |-> clock + ahead, filmed |-> clock, write |-> writes + 1]]
  /\ UNCHANGED <<op, links, erased, clock, commands, strays, crashes>>

-----------------------------------------------------------------------------
(* app.retention                                                           *)

DeletionDeadline(object, days) == object.stamp + days

\* "An object exactly at its deadline is late, not early."
IsDue(object, now, days) == now >= DeletionDeadline(object, days)

\* _verified_names: one name from outside stops the plan.
VerifiedOwn(listed, account) == {n \in listed : n[1] = account}
Verified(listed, account) ==
  IF \A n \in listed : n[1] = account THEN listed ELSE {}

DueForDeletion(listed, account, now, days) ==
  {n \in Verified(listed, account) : IsDue(bucket[n], now, days)}

\* plan_forget asks nothing about age; a sweep with a period of zero would.
ForgetAtZero(listed, account) == DueForDeletion(listed, account, clock, 0)
EverythingIn(listed, account) == Verified(listed, account)

\* What the bucket answers is the account's objects, and perhaps, once in a
\* while, something that is not.
Answers(account) ==
  LET others == {n \in Name : Here(n)} \ Under(account)
  IN {Under(account) \cup stray : stray \in SUBSET others}

\* Listing and planning, of a sweep and of a forgetting.
StartDeleting(c, account, kind, days, listed, due) ==
  LET strayed == listed # Under(account)
  IN /\ op[c] = NoOp /\ commands < habit.commands
     /\ habit.careful => Quiet
     /\ strayed => strays < habit.strays
     /\ commands' = commands + 1
     /\ strays' = IF strayed THEN strays + 1 ELSE strays
     /\ op' = [op EXCEPT ![c] =
                 [NoOp EXCEPT !.kind = kind, !.account = account, !.days = days,
                              !.now = clock, !.seen = writes, !.step = "delete",
                              !.todo = due, !.strayed = strayed]]
     /\ UNCHANGED <<bucket, links, erased, clock, writes, crashes>>

Sweep(c) ==
  \E account \in Account, days \in habit.days : \E listed \in Answers(account) :
    StartDeleting(c, account, "sweep", days, listed,
                  DueForDeletion(listed, account, clock, days))

ForgetAccount(c) ==
  /\ ~habit.careful
  /\ \E account \in Account : \E listed \in Answers(account) :
       StartDeleting(c, account, "forget", 0, listed, EverythingIn(listed, account))

Stored(files, w) == \E p \in Place : files[<<p, w>>] # Absent

\* delete_objects: by name, whatever is under the name by now.
DeleteNext(c) ==
  /\ op[c].kind \in {"sweep", "forget"}
  /\ \E n \in op[c].todo :
       /\ Here(n)
       /\ bucket' = [bucket EXCEPT ![n] = Absent]
       /\ op' = [op EXCEPT ![c].todo = @ \ {n}]
       /\ erased' = erased \cup {n[2]}
  /\ UNCHANGED <<links, clock, counts>>

\* Another command took the object away: the call raises and the rest of the
\* deletion does not happen.
DeleteMissing(c) ==
  /\ op[c].kind \in {"sweep", "forget"}
  /\ \E n \in op[c].todo : ~Here(n)
  /\ op' = [op EXCEPT ![c] = NoOp]
  /\ UNCHANGED <<bucket, links, erased, clock, counts>>

Return(c) ==
  /\ op[c].kind # "" /\ op[c].todo = {}
  /\ op' = [op EXCEPT ![c] = NoOp]
  /\ UNCHANGED <<bucket, links, erased, clock, counts>>

-----------------------------------------------------------------------------
(* app.tenant_migration: copy, confirm, then delete.                       *)

DestinationFor(n, account) == <<account, n[2]>>

\* plan_migration: what is in account space already is left where it is.
MigrateAccount(c) ==
  /\ op[c] = NoOp /\ commands < habit.commands
  /\ habit.careful => Quiet
  /\ commands' = commands + 1
  /\ \E account \in Migrators :
       op' = [op EXCEPT ![c] =
                [NoOp EXCEPT !.kind = "migrate", !.account = account, !.now = clock,
                             !.seen = writes, !.todo = Under(Legacy), !.step = "look"]]
  /\ UNCHANGED <<bucket, links, erased, clock, writes, strays, crashes>>

\* The moves are made in the plan's order: the object being moved is one the
\* command sticks to until it is done with it.
First(todo) == CHOOSE n \in todo : TRUE
Moving(c) == First(op[c].todo)
At(c, step) == op[c].kind = "migrate" /\ op[c].todo # {} /\ op[c].step = step
GoTo(c, step) == op' = [op EXCEPT ![c].step = step]
Dest(c) == DestinationFor(Moving(c), op[c].account)

Look(c) ==
  /\ At(c, "look")
  /\ GoTo(c, IF Here(Dest(c)) THEN "confirm" ELSE "copy")
  /\ UNCHANGED <<bucket, links, erased, clock, counts>>

\* A copy is a new object: the bucket stamps it with the time it was made.
Copy(c) ==
  /\ At(c, "copy") /\ Here(Moving(c)) /\ writes < MaxWrites
  /\ writes' = writes + 1
  /\ bucket' = [bucket EXCEPT ![Dest(c)] =
                  [stamp |-> clock, filmed |-> bucket[Moving(c)].filmed,
                   write |-> writes + 1]]
  /\ GoTo(c, "confirm")
  /\ UNCHANGED <<links, erased, clock, commands, strays, crashes>>

\* The copy is answered and does not arrive.
CopyLost(c) ==
  /\ At(c, "copy") /\ Here(Moving(c)) /\ crashes < MaxCrashes
  /\ crashes' = crashes + 1
  /\ GoTo(c, "confirm")
  /\ UNCHANGED <<bucket, links, erased, clock, writes, commands, strays>>

Arrived(c) == TRUE
CopyConfirmed(c) == Here(Dest(c))

Confirm(c) ==
  /\ At(c, "confirm") /\ CopyConfirmed(c)
  /\ GoTo(c, "delete")
  /\ UNCHANGED <<bucket, links, erased, clock, counts>>

DeleteOld(c) ==
  /\ At(c, "delete") /\ Here(Moving(c))
  /\ bucket' = [bucket EXCEPT ![Moving(c)] = Absent]
  /\ op' = [op EXCEPT ![c].todo = @ \ {Moving(c)}, ![c].step = "look"]
  /\ UNCHANGED <<links, erased, clock, counts>>

\* A copy that did not arrive, and an old name that is gone, end the command.
MoveFails(c) ==
  /\ \/ At(c, "confirm") /\ ~CopyConfirmed(c)
     \/ (At(c, "copy") \/ At(c, "delete")) /\ ~Here(Moving(c))
  /\ op' = [op EXCEPT ![c] = NoOp]
  /\ UNCHANGED <<bucket, links, erased, clock, counts>>

-----------------------------------------------------------------------------
(* app.signed_links                                                        *)

Least(a, b) == IF a <= b THEN a ELSE b

\* The shorter of what was asked for and what is left of the object's period.
LinkUnclamped(object, now, days, requested) == requested
LinkLifetime(object, now, days, requested) ==
  Least(requested, DeletionDeadline(object, days) - now)

SignObject(account, w, days, requested) ==
  LET n == <<account, w>>
  IN /\ Here(n)
     /\ DeletionDeadline(bucket[n], days) - clock >= 1
     /\ links' = links \cup
          {[name |-> n,
            expires |-> clock + LinkLifetime(bucket[n], clock, days, requested)]}
     /\ UNCHANGED <<bucket, op, erased, clock, counts>>

-----------------------------------------------------------------------------
Tick ==
  /\ clock < habit.clock
  /\ clock' = clock + 1
  /\ UNCHANGED <<bucket, op, links, erased, counts>>

\* The command is interrupted, or a call of its fails, between two calls.
Crash(c) ==
  /\ op[c] # NoOp /\ crashes < MaxCrashes
  /\ crashes' = crashes + 1
  /\ op' = [op EXCEPT ![c] = NoOp]
  /\ UNCHANGED <<bucket, links, erased, clock, writes, commands, strays>>

Proceed(c) ==
  \/ DeleteNext(c) \/ DeleteMissing(c) \/ Return(c)
  \/ Look(c) \/ Copy(c) \/ CopyLost(c) \/ Confirm(c) \/ DeleteOld(c) \/ MoveFails(c)

BucketStep ==
  \/ \E p \in Place, w \in FileName : Upload(p, w)
  \/ \E c \in Client : Sweep(c) \/ ForgetAccount(c) \/ MigrateAccount(c)
                         \/ Proceed(c) \/ Crash(c)
  \/ \E account \in Account, w \in FileName, days \in habit.days, requested \in 1..habit.link :
       SignObject(account, w, days, requested)
  \/ Tick

BucketNext == BucketStep /\ UNCHANGED habit

BucketSpec == BucketInit /\ [][BucketNext]_bucketVars

-----------------------------------------------------------------------------
(* Properties.                                                             *)

\* "A duplicate is a bill. A hole is somebody's ride.": whatever commands run
\* beside each other, and wherever they stop, footage that was uploaded is in
\* the bucket unless a sweep or a forgetting has taken some of it away.
NoHole ==
  [][\A w \in FileName :
       Stored(bucket, w) => Stored(bucket', w) \/ w \in erased']_<<bucket, erased>>

\* A command that was answered with anybody else's object deletes nothing at
\* all: not that object, and not the account's own either.
StrayStops ==
  \A c \in Client : op[c].strayed => op[c].todo = {}

\* A forgetting that gets to its end has left the account nothing it held when
\* the command listed it, whatever the stamps said.
ForgetLeavesNothing ==
  \A c \in Client :
    op[c].kind = "forget" /\ op[c].todo = {} /\ ~op[c].strayed
      => \A w \in FileName : LET object == bucket[<<op[c].account, w>>]
                           IN object # Absent => object.write > op[c].seen

\* A sweep that gets to its end has left nothing that was at its deadline.
SweepLeavesNothingDue ==
  \A c \in Client :
    op[c].kind = "sweep" /\ op[c].todo = {} /\ ~op[c].strayed
      => \A w \in FileName : LET object == bucket[<<op[c].account, w>>]
                           IN object # Absent /\ object.write <= op[c].seen
                                => op[c].now < object.stamp + op[c].days

\* A deletion that gets to its end has done what it was for.
DeletionIsDone == ForgetLeavesNothing /\ SweepLeavesNothingDue

\* "A link never outlives the object it points at.": nobody holds a link that
\* still works to a name with nothing under it, where one retention period is
\* used throughout, nobody asks to be forgotten, one command runs at a time, no
\* copy is uploaded over itself and stamps do not run ahead: a copy made over an
\* object uploaded since the migration looked may be the older by its stamp.
LinkNeverOutlives ==
  habit.careful => \A link \in links : clock < link.expires => Here(link.name)

\* Of the code's own words, tested: the deadline is "the moment this upload
\* must be gone by" -- no footage an ended sweep left had come to the bucket a
\* whole period before.
GoneByDeadline ==
  \A c \in Client :
    op[c].kind = "sweep" /\ op[c].todo = {} /\ ~op[c].strayed
      => \A w \in FileName : LET object == bucket[<<op[c].account, w>>]
                           IN object # Absent => op[c].now < object.filmed + op[c].days
=============================================================================
