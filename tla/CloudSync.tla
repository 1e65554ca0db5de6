------------------------------ MODULE CloudSync ------------------------------
(***************************************************************************)
(* Save files on the device and in the cloud.  A save is written to the    *)
(* disk and, when someone is logged in, uploaded (Model.saveModel); a      *)
(* deletion is sent as well (Model.deleteFile); signing up uploads every   *)
(* file there is (SessionStore.signUp); launching the program downloads    *)
(* every file of the account over the local ones (AppDelegate).            *)
(*                                                                         *)
(* Transfers run side by side, in no order, may fail, and end with the     *)
(* process.  A file's contents are the number of the save that wrote it.   *)
(***************************************************************************)
EXTENDS Integers, FiniteSets

CONSTANTS Users, Files,
          NoUser,    \* nobody is logged in
          MaxSaves   \* bound: saves in a behaviour

ASSUME UsersAssumption == NoUser \notin Users

ASSUME BoundAssumption == MaxSaves \in Nat

VARIABLES
  user,       \* Auth's current user, which outlives the process
  accounts,   \* the users that have signed up
  disk,       \* disk[f]: the save in the local file f; 0 when there is none
  cloud,      \* cloud[u][f]: the same under userData/u
  transfers,  \* tasks handed to the storage service and not finished
  profiles,   \* users whose profile change is not committed yet
  saves,      \* number of saves so far
  saved,      \* history: saved[f]: what the user last did with f here
  clean       \* history: clean[f]: nothing has gone wrong with f, see below

vars == <<user, accounts, disk, cloud, transfers, profiles, saves, saved, clean>>

None == 0

(* A listing is about no file; an upload has read the save it sends, or    *)
(* None yet; a download has received the save it writes, or None yet.      *)
Transfer == [kind  : {"list", "upload", "download", "delete"},
             uid   : Users,
             file  : Files \cup {"all"},
             made  : 0 .. MaxSaves,
             holds : 0 .. MaxSaves]

Start(kind, uid, file, made) ==
  [kind |-> kind, uid |-> uid, file |-> file, made |-> made, holds |-> None]

Concerns(t, f) == t.file = f \/ t.kind = "list"

Busy(f) == \E t \in transfers : Concerns(t, f)

Init ==
  /\ user = NoUser
  /\ accounts = {}
  /\ disk = [f \in Files |-> None]
  /\ cloud = [u \in Users |-> [f \in Files |-> None]]
  /\ transfers = {}
  /\ profiles = {}
  /\ saves = 0
  /\ saved = [f \in Files |-> None]
  /\ clean = [f \in Files |-> TRUE]

-----------------------------------------------------------------------------
(* saveModel(): a failed write does not keep the upload from starting.     *)
Save(f, written) ==
  /\ saves < MaxSaves
  /\ saves' = saves + 1
  /\ disk' = IF written THEN [disk EXCEPT ![f] = saves'] ELSE disk
  /\ saved' = IF written THEN [saved EXCEPT ![f] = saves'] ELSE saved
  /\ transfers' = IF user # NoUser
                  THEN transfers \cup {Start("upload", user, f, saves')}
                  ELSE transfers
  /\ clean' = [clean EXCEPT ![f] = @ /\ user # NoUser /\ ~Busy(f)]
  /\ UNCHANGED <<user, accounts, cloud, profiles>>

(* Slip: the file goes on the device only.                                 *)
Delete_LocalOnly(f) ==
  /\ disk' = [disk EXCEPT ![f] = None]
  /\ saved' = [saved EXCEPT ![f] = None]
  /\ clean' = [clean EXCEPT ![f] = @ /\ user # NoUser /\ ~Busy(f)]
  /\ UNCHANGED <<user, accounts, cloud, transfers, profiles, saves>>

(* deleteFile() of a checklist that bears a name, of a file or not.        *)
Delete(f) ==
  /\ disk' = [disk EXCEPT ![f] = None]
  /\ saved' = [saved EXCEPT ![f] = None]
  /\ transfers' = IF user # NoUser
                  THEN transfers \cup {Start("delete", user, f, saves)}
                  ELSE transfers
  /\ clean' = [clean EXCEPT ![f] = @ /\ user # NoUser /\ ~Busy(f)]
  /\ UNCHANGED <<user, accounts, cloud, profiles, saves>>

(* signUp(): the account exists and is logged in, and a change of profile  *)
(* is on its way; a local file is in the cloud only after that.  The page  *)
(* that signs up, like the one that signs in, stays open after a first     *)
(* success, and then works for another user as well.                       *)
SignUp(u) ==
  /\ u \notin accounts
  /\ user' = u
  /\ accounts' = accounts \cup {u}
  /\ profiles' = profiles \cup {u}
  /\ clean' = [f \in Files |-> disk[f] = None /\ ~Busy(f)]
  /\ UNCHANGED <<disk, cloud, transfers, saves, saved>>

(* The handler of commitChanges(): every file is uploaded for whoever is   *)
(* logged in by then.                                                      *)
ProfileCommitted(u) ==
  /\ u \in profiles
  /\ profiles' = profiles \ {u}
  /\ LET present == {f \in Files : disk[f] # None}
     IN  /\ transfers' = IF user # NoUser
                         THEN transfers \cup
                              {Start("upload", user, f, disk[f]) : f \in present}
                         ELSE transfers
         /\ clean' = [f \in Files |->
                        IF f \in present /\ user # NoUser
                        THEN ~Busy(f)
                        ELSE clean[f]]
  /\ UNCHANGED <<user, accounts, disk, cloud, saves, saved>>

ProfileFails(u) ==
  /\ u \in profiles
  /\ profiles' = profiles \ {u}
  /\ UNCHANGED <<user, accounts, disk, cloud, transfers, saves, saved, clean>>

(* signIn() transfers nothing; nor does signOut(), which leaves what is on *)
(* its way alone.                                                          *)
SignIn(u) ==
  /\ u \in accounts
  /\ user' = u
  /\ clean' = [f \in Files |-> disk[f] = cloud[u][f] /\ ~Busy(f)]
  /\ UNCHANGED <<accounts, disk, cloud, transfers, profiles, saves, saved>>

SignOut ==
  /\ user # NoUser
  /\ user' = NoUser
  /\ UNCHANGED <<accounts, disk, cloud, transfers, profiles, saves, saved, clean>>

(* Slip: the files are listed for nobody, too.                             *)
Launch_ForNobody ==
  /\ transfers' = {Start("list", user, "all", saves)}
  /\ profiles' = {}
  /\ clean' = [f \in Files |->
                 user # NoUser /\ (cloud[user][f] # None \/ disk[f] = None)]
  /\ UNCHANGED <<user, accounts, disk, cloud, saves, saved>>

(* The process ends, its transfers with it, and is launched again: with a  *)
(* user at hand the account's files are listed.                            *)
Launch ==
  /\ transfers' = IF user # NoUser THEN {Start("list", user, "all", saves)} ELSE {}
  /\ profiles' = {}
  /\ clean' = [f \in Files |->
                 user # NoUser /\ (cloud[user][f] # None \/ disk[f] = None)]
  /\ UNCHANGED <<user, accounts, disk, cloud, saves, saved>>

-----------------------------------------------------------------------------
(* Slip: the files are listed, and none is fetched.                        *)
Listed_NoDownloads(t) ==
  /\ t.kind = "list"
  /\ transfers' = transfers \ {t}
  /\ UNCHANGED <<user, accounts, disk, cloud, profiles, saves, saved, clean>>

(* listAll() answers: each item is downloaded.                             *)
Listed(t) ==
  /\ t.kind = "list"
  /\ transfers' = (transfers \ {t}) \cup
       {Start("download", t.uid, f, t.made) :
          f \in {g \in Files : cloud[t.uid][g] # None}}
  /\ UNCHANGED <<user, accounts, disk, cloud, profiles, saves, saved, clean>>

(* listAll() asks page by page.  When a page fails, what the pages before  *)
(* it listed is handed over all the same, once the error is reported.      *)
ListFails(t, got) ==
  /\ t.kind = "list"
  /\ got \subseteq {f \in Files : cloud[t.uid][f] # None}
  /\ transfers' = (transfers \ {t}) \cup
                  {Start("download", t.uid, f, t.made) : f \in got}
  /\ clean' = [f \in Files |-> FALSE]
  /\ UNCHANGED <<user, accounts, disk, cloud, profiles, saves, saved>>

(* The file is looked for when the task is run, and read while it is sent. *)
ReadLocal(t) ==
  /\ t.kind = "upload" /\ t.holds = None /\ disk[t.file] # None
  /\ transfers' = (transfers \ {t}) \cup {[t EXCEPT !.holds = disk[t.file]]}
  /\ UNCHANGED <<user, accounts, disk, cloud, profiles, saves, saved, clean>>

Uploaded(t) ==
  /\ t.kind = "upload" /\ t.holds # None
  /\ cloud' = [cloud EXCEPT ![t.uid][t.file] = t.holds]
  /\ transfers' = transfers \ {t}
  /\ UNCHANGED <<user, accounts, disk, profiles, saves, saved, clean>>

Removed(t) ==
  /\ t.kind = "delete"
  /\ cloud' = [cloud EXCEPT ![t.uid][t.file] = None]
  /\ transfers' = transfers \ {t}
  /\ UNCHANGED <<user, accounts, disk, profiles, saves, saved, clean>>

ReadCloud(t) ==
  /\ t.kind = "download" /\ t.holds = None /\ cloud[t.uid][t.file] # None
  /\ transfers' = (transfers \ {t}) \cup
                  {[t EXCEPT !.holds = cloud[t.uid][t.file]]}
  /\ UNCHANGED <<user, accounts, disk, cloud, profiles, saves, saved, clean>>

(* write(toFile:) moves what it received over the local file, whatever is  *)
(* there by then.                                                          *)
Downloaded(t) ==
  /\ t.kind = "download" /\ t.holds # None
  /\ disk' = [disk EXCEPT ![t.file] = t.holds]
  /\ transfers' = transfers \ {t}
  /\ UNCHANGED <<user, accounts, cloud, profiles, saves, saved, clean>>

(* A task whose file or object is gone can only fail.                      *)
Hopeless(t) ==
  \/ t.kind = "upload" /\ t.holds = None /\ disk[t.file] = None
  \/ t.kind = "download" /\ t.holds = None /\ cloud[t.uid][t.file] = None

(* "Cloud Sync Fail" is shown, and nothing is tried again.                 *)
Fails(t) ==
  /\ t.kind # "list"
  /\ transfers' = transfers \ {t}
  /\ clean' = [clean EXCEPT ![t.file] = FALSE]
  /\ UNCHANGED <<user, accounts, disk, cloud, profiles, saves, saved>>

Completes(t) ==
  \/ Listed(t)
  \/ ReadLocal(t)
  \/ Uploaded(t)
  \/ Removed(t)
  \/ ReadCloud(t)
  \/ Downloaded(t)
  \/ Hopeless(t) /\ Fails(t)

UserStep ==
  \/ \E f \in Files : \/ \E written \in BOOLEAN : Save(f, written)
                      \/ Delete(f)
  \/ \E u \in Users : SignUp(u) \/ SignIn(u)
  \/ SignOut
  \/ Launch

ServiceStep ==
  \/ \E t \in transfers : Completes(t)
  \/ \E u \in Users : ProfileCommitted(u)

FailureStep ==
  \/ \E t \in transfers : \/ \E got \in SUBSET Files : ListFails(t, got)
                          \/ Fails(t)
  \/ \E u \in Users : ProfileFails(u)

Next == UserStep \/ ServiceStep \/ FailureStep

Spec == Init /\ [][Next]_vars

(* Transfers do not wait for one another, and each comes to its end.       *)
FairSpec ==
  /\ Spec
  /\ \A f \in Files :
       WF_vars(\E t \in transfers : Concerns(t, f) /\ Completes(t))
  /\ WF_vars(\E u \in Users : ProfileCommitted(u))

-----------------------------------------------------------------------------
(* Transfers are made for users only, whatever happens to the login before *)
(* they run, and what they carry was saved once.                           *)
TypeOK ==
  /\ user \in Users \cup {NoUser}
  /\ accounts \subseteq Users /\ profiles \subseteq accounts
  /\ disk \in [Files -> 0 .. MaxSaves]
  /\ cloud \in [Users -> [Files -> 0 .. MaxSaves]]
  /\ transfers \subseteq Transfer
  /\ saves \in 0 .. MaxSaves
  /\ saved \in [Files -> 0 .. MaxSaves]
  /\ clean \in [Files -> BOOLEAN]

(* When the device and the cloud can be relied upon to agree on a file:    *)
(* its saves and deletions were made while logged in, each after the       *)
(* transfers about the file had ended, and none of these failed; or the    *)
(* program was launched with the file in the cloud and no other file       *)
(* change since.  Then, with no transfer left, both hold the same save.    *)
QuietMeansSynced ==
  \A f \in Files :
    user # NoUser /\ clean[f] /\ ~Busy(f) => disk[f] = cloud[user][f]

(* Such a file does get there, unless it is changed again, a transfer      *)
(* fails, the user leaves, or the program is ended over and over.          *)
SyncHappens ==
  <>[][~Launch]_vars =>
    \A f \in Files :
      (user # NoUser /\ clean[f])
        ~> (~clean[f] \/ user = NoUser \/ disk[f] = cloud[user][f])

(* README.md:28, "Cloud synchronization": synchronizing does not undo what *)
(* the user last did with a file on this device.                           *)
DeviceKeepsLastSave == \A f \in Files : disk[f] = saved[f]
=============================================================================
