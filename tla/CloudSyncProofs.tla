--------------------------- MODULE CloudSyncProofs ---------------------------
(***************************************************************************)
(* Theorems about CloudSync, for any users, files and number of saves:     *)
(* type correctness, and why the device and the cloud agree on a file that *)
(* nothing has gone wrong with.                                            *)
(***************************************************************************)
EXTENDS CloudSync, TLAPS

(* Only an account logs in and has files in the cloud, and every transfer  *)
(* but a listing is about one file.                                        *)
AccountsOnly ==
  /\ user \in accounts \cup {NoUser}
  /\ \A t \in transfers : /\ t.uid \in accounts
                          /\ t.kind # "list" => t.file \in Files
  /\ \A u \in Users \ accounts : \A f \in Files : cloud[u][f] = None

(* A transfer for the current user that, unless it fails, leaves the same  *)
(* save on the device and in the cloud.                                    *)
Leads(t, f) ==
  /\ t.uid = user
  /\ \/ t.kind = "list" /\ (cloud[user][f] # None \/ disk[f] = None)
     \/ t.kind = "upload" /\ t.file = f /\ t.holds \in {None, disk[f]}
     \/ t.kind = "delete" /\ t.file = f /\ disk[f] = None
     \/ t.kind = "download" /\ t.file = f /\ t.holds \in {None, cloud[user][f]}

About(f) == {t \in transfers : Concerns(t, f)}

(* A file that is clean has reached the cloud, or one transfer stands      *)
(* between the two and no other can come in its way.                       *)
OnItsWay(f) ==
  user # NoUser /\ clean[f] =>
    \/ About(f) = {} /\ disk[f] = cloud[user][f]
    \/ \E t \in transfers : About(f) = {t} /\ Leads(t, f)

SyncInv == TypeOK /\ AccountsOnly /\ \A f \in Files : OnItsWay(f)

-----------------------------------------------------------------------------
LEMMA BusyIsAbout == \A f : Busy(f) <=> About(f) # {}
BY DEF Busy, About

LEMMA StartTyped ==
  ASSUME TypeOK, NEW kind \in {"list", "upload", "download", "delete"},
         NEW u \in Users, NEW f \in Files \cup {"all"}, NEW made \in 0 .. MaxSaves
  PROVE  /\ Start(kind, u, f, made) \in Transfer
         /\ Start(kind, u, f, made).uid = u
         /\ Start(kind, u, f, made).file = f
         /\ Start(kind, u, f, made).kind = kind
         /\ Start(kind, u, f, made).holds = None
BY BoundAssumption DEF Start, Transfer, None

(* A file that a step is not about stays as it is.                         *)
LEMMA OthersStay ==
  ASSUME NEW f \in Files, OnItsWay(f), user' = user, disk'[f] = disk[f],
         user # NoUser => cloud'[user][f] = cloud[user][f],
         clean'[f] => clean[f], About(f)' = About(f)
  PROVE  OnItsWay(f)'
<1>1. SUFFICES ASSUME user # NoUser, clean[f]
               PROVE  \/ About(f)' = {} /\ disk'[f] = cloud'[user'][f]
                      \/ \E t \in transfers' : About(f)' = {t} /\ Leads(t, f)'
  BY DEF OnItsWay
<1>2. CASE About(f) = {} /\ disk[f] = cloud[user][f]
  BY <1>1, <1>2
<1>3. ASSUME NEW t \in transfers, About(f) = {t}, Leads(t, f)
      PROVE  t \in transfers' /\ About(f)' = {t} /\ Leads(t, f)'
  <2>1. t \in transfers'
    BY <1>3 DEF About
  <2>2. Leads(t, f)'
    BY <1>1, <1>3 DEF Leads
  <2>3. QED
    BY <1>3, <2>1, <2>2
<1>4. QED
  BY <1>1, <1>2, <1>3 DEF OnItsWay

(* A transfer about a clean file is the one that stands in between.        *)
LEMMA OneTransfer ==
  ASSUME NEW f \in Files, OnItsWay(f), user # NoUser, clean[f],
         NEW t \in transfers, Concerns(t, f)
  PROVE  About(f) = {t} /\ Leads(t, f)
BY DEF OnItsWay, About

LEMMA InitSync == Init => SyncInv
<1> SUFFICES ASSUME Init PROVE SyncInv
  OBVIOUS
<1>1. TypeOK
  BY BoundAssumption DEF Init, TypeOK, None
<1>2. AccountsOnly
  BY DEF Init, AccountsOnly
<1>3. QED
  BY <1>1, <1>2 DEF Init, SyncInv, OnItsWay

-----------------------------------------------------------------------------
LEMMA UserStepTyped ==
  ASSUME SyncInv, UserStep PROVE TypeOK' /\ AccountsOnly'
<1> USE DEF SyncInv
<1>1. ASSUME NEW f \in Files, NEW written \in BOOLEAN, Save(f, written)
      PROVE  TypeOK' /\ AccountsOnly'
  <2>1. saves' \in 0 .. MaxSaves
    BY <1>1, BoundAssumption DEF Save, TypeOK
  <2>2. /\ disk' \in [Files -> 0 .. MaxSaves] /\ saved' \in [Files -> 0 .. MaxSaves]
        /\ clean' \in [Files -> BOOLEAN]
    BY <1>1, <2>1 DEF Save, TypeOK
  <2>3. QED
    BY <1>1, <2>1, <2>2, StartTyped DEF Save, TypeOK, AccountsOnly
<1>2. ASSUME NEW f \in Files, Delete(f) PROVE TypeOK' /\ AccountsOnly'
  <2>1. /\ disk' \in [Files -> 0 .. MaxSaves] /\ saved' \in [Files -> 0 .. MaxSaves]
        /\ clean' \in [Files -> BOOLEAN]
    BY <1>2, BoundAssumption DEF Delete, TypeOK, None
  <2>2. QED
    BY <1>2, <2>1, StartTyped DEF Delete, TypeOK, AccountsOnly
<1>3. ASSUME NEW u \in Users, SignUp(u) \/ SignIn(u) PROVE TypeOK' /\ AccountsOnly'
  BY <1>3 DEF SignUp, SignIn, TypeOK, AccountsOnly
<1>4. CASE SignOut
  BY <1>4 DEF SignOut, TypeOK, AccountsOnly
<1>5. CASE Launch
  <2>1. clean' \in [Files -> BOOLEAN]
    BY <1>5 DEF Launch, None
  <2>2. ASSUME NEW t \in transfers'
        PROVE  t \in Transfer /\ t.uid \in accounts /\ t.kind = "list"
    <3>1. user # NoUser /\ t = Start("list", user, "all", saves)
      BY <1>5, <2>2 DEF Launch
    <3>2. user \in Users /\ user \in accounts /\ saves \in 0 .. MaxSaves
      BY <3>1 DEF TypeOK, AccountsOnly
    <3>3. QED
      BY <3>1, <3>2, StartTyped
  <2>3. QED
    BY <1>5, <2>1, <2>2 DEF Launch, TypeOK, AccountsOnly
<1>6. QED
  BY <1>1, <1>2, <1>3, <1>4, <1>5 DEF UserStep

LEMMA ServiceStepTyped ==
  ASSUME SyncInv, ServiceStep \/ FailureStep PROVE TypeOK' /\ AccountsOnly'
<1> USE DEF SyncInv
<1>1. ASSUME NEW t \in transfers, Listed(t) PROVE TypeOK' /\ AccountsOnly'
  BY <1>1, StartTyped DEF Listed, TypeOK, AccountsOnly, Transfer
<1>2. ASSUME NEW t \in transfers, NEW got \in SUBSET Files, ListFails(t, got)
      PROVE  TypeOK' /\ AccountsOnly'
  BY <1>2, StartTyped DEF ListFails, TypeOK, AccountsOnly, Transfer
<1>3. ASSUME NEW t \in transfers, ReadLocal(t) PROVE TypeOK' /\ AccountsOnly'
  BY <1>3 DEF ReadLocal, TypeOK, AccountsOnly, Transfer
<1>4. ASSUME NEW t \in transfers, ReadCloud(t) PROVE TypeOK' /\ AccountsOnly'
  <2>1. t \in Transfer /\ t.uid \in Users /\ t.file \in Files
    BY <1>4 DEF ReadCloud, TypeOK, AccountsOnly, Transfer
  <2>2. cloud[t.uid][t.file] \in 0 .. MaxSaves
    BY <2>1 DEF TypeOK
  <2>3. PICK s \in 0 .. MaxSaves :
          transfers' = (transfers \ {t}) \cup {[t EXCEPT !.holds = s]}
    BY <1>4, <2>2 DEF ReadCloud
  <2>4. QED
    <3>1. /\ [t EXCEPT !.holds = s] \in Transfer
          /\ [t EXCEPT !.holds = s].uid \in accounts
          /\ [t EXCEPT !.holds = s].file \in Files
      BY <2>1, <2>3 DEF Transfer, AccountsOnly
    <3>2. UNCHANGED <<user, accounts, disk, cloud, profiles, saves, saved, clean>>
      BY <1>4 DEF ReadCloud
    <3>3. QED
      BY <2>3, <3>1, <3>2 DEF TypeOK, AccountsOnly
<1>5. ASSUME NEW t \in transfers, Uploaded(t) \/ Removed(t)
      PROVE  TypeOK' /\ AccountsOnly'
  <2>1. t.uid \in accounts /\ t.uid \in Users /\ t.file \in Files
    BY <1>5 DEF Uploaded, Removed, TypeOK, AccountsOnly
  <2>2. PICK s \in 0 .. MaxSaves : cloud' = [cloud EXCEPT ![t.uid][t.file] = s]
    <3>1. t.holds \in 0 .. MaxSaves /\ None \in 0 .. MaxSaves
      BY BoundAssumption DEF TypeOK, Transfer, None
    <3>2. \/ cloud' = [cloud EXCEPT ![t.uid][t.file] = t.holds]
          \/ cloud' = [cloud EXCEPT ![t.uid][t.file] = None]
      BY <1>5 DEF Uploaded, Removed
    <3>3. QED
      BY <3>1, <3>2, Zenon
  <2>3. cloud' \in [Users -> [Files -> 0 .. MaxSaves]]
    BY <2>1, <2>2 DEF TypeOK
  <2>4. \A u \in Users \ accounts : \A f \in Files : cloud'[u][f] = None
    BY <2>1, <2>2 DEF TypeOK, AccountsOnly
  <2>5. /\ transfers' \subseteq transfers
        /\ UNCHANGED <<user, accounts, disk, profiles, saves, saved, clean>>
    BY <1>5 DEF Uploaded, Removed
  <2>6. QED
    BY <2>3, <2>4, <2>5 DEF TypeOK, AccountsOnly
<1>6. ASSUME NEW t \in transfers, Downloaded(t) PROVE TypeOK' /\ AccountsOnly'
  BY <1>6 DEF Downloaded, TypeOK, AccountsOnly, Transfer
<1>7. ASSUME NEW t \in transfers, Fails(t) PROVE TypeOK' /\ AccountsOnly'
  BY <1>7 DEF Fails, TypeOK, AccountsOnly
<1>8. ASSUME NEW u \in Users, ProfileCommitted(u) PROVE TypeOK' /\ AccountsOnly'
  <2>1. clean' \in [Files -> BOOLEAN]
    BY <1>8 DEF ProfileCommitted, TypeOK, Busy
  <2>2. ASSUME NEW t \in transfers' \ transfers
        PROVE  t \in Transfer /\ t.uid \in accounts /\ t.file \in Files
    <3>1. PICK f \in Files : user # NoUser /\ t = Start("upload", user, f, disk[f])
      BY <1>8, <2>2 DEF ProfileCommitted
    <3>2. QED
      BY <3>1, StartTyped DEF TypeOK, AccountsOnly
  <2>3. QED
    BY <1>8, <2>1, <2>2 DEF ProfileCommitted, TypeOK, AccountsOnly
<1>9. ASSUME NEW u \in Users, ProfileFails(u) PROVE TypeOK' /\ AccountsOnly'
  BY <1>9 DEF ProfileFails, TypeOK, AccountsOnly
<1>10. QED
  BY <1>1, <1>2, <1>3, <1>4, <1>5, <1>6, <1>7, <1>8, <1>9
     DEF ServiceStep, FailureStep, Completes
-----------------------------------------------------------------------------
(* A save or a deletion by someone logged in starts the one transfer about *)
(* its file when there is none.                                            *)
LEMMA SaveOnItsWay ==
  ASSUME SyncInv, NEW f \in Files, NEW written \in BOOLEAN, Save(f, written),
         NEW g \in Files
  PROVE  OnItsWay(g)'
<1> USE DEF SyncInv
<1> PICK new : new = Start("upload", user, f, saves')
  OBVIOUS
<1>1. new.kind = "upload" /\ new.file = f /\ new.uid = user /\ new.holds = None
  BY DEF Start
<1>2. transfers' = IF user # NoUser THEN transfers \cup {new} ELSE transfers
  BY DEF Save
<1>3. CASE g = f
  <2>1. SUFFICES ASSUME user' # NoUser, clean'[f]
                 PROVE  \E t \in transfers' : About(f)' = {t} /\ Leads(t, f)'
    BY <1>3 DEF OnItsWay
  <2>2. user' = user /\ user # NoUser /\ ~Busy(f)
    BY <2>1 DEF Save, TypeOK
  <2>3. About(f)' = {new}
    BY <1>1, <1>2, <2>2 DEF About, Busy, Concerns
  <2>4. Leads(new, f)'
    BY <1>1, <2>2 DEF Leads
  <2>5. QED
    BY <1>2, <2>2, <2>3, <2>4
<1>4. CASE g # f
  <2>1. /\ user' = user /\ disk'[g] = disk[g] /\ cloud' = cloud
        /\ clean'[g] = clean[g]
    BY <1>4 DEF Save, TypeOK
  <2>2. About(g)' = About(g)
    BY <1>1, <1>2, <1>4 DEF About, Concerns
  <2>3. QED
    BY <2>1, <2>2, OthersStay
<1>5. QED
  BY <1>3, <1>4

LEMMA DeleteOnItsWay ==
  ASSUME SyncInv, NEW f \in Files, Delete(f), NEW g \in Files
  PROVE  OnItsWay(g)'
<1> USE DEF SyncInv
<1> PICK new : new = Start("delete", user, f, saves)
  OBVIOUS
<1>1. new.kind = "delete" /\ new.file = f /\ new.uid = user
  BY DEF Start
<1>2. transfers' = IF user # NoUser THEN transfers \cup {new} ELSE transfers
  BY DEF Delete
<1>3. CASE g = f
  <2>1. SUFFICES ASSUME user' # NoUser, clean'[f]
                 PROVE  \E t \in transfers' : About(f)' = {t} /\ Leads(t, f)'
    BY <1>3 DEF OnItsWay
  <2>2. user' = user /\ user # NoUser /\ ~Busy(f)
    BY <2>1 DEF Delete, TypeOK
  <2>3. About(f)' = {new}
    BY <1>1, <1>2, <2>2 DEF About, Busy, Concerns
  <2>4. Leads(new, f)'
    BY <1>1, <2>2 DEF Leads, Delete, TypeOK
  <2>5. QED
    BY <1>2, <2>2, <2>3, <2>4
<1>4. CASE g # f
  <2>1. /\ user' = user /\ disk'[g] = disk[g] /\ cloud' = cloud
        /\ clean'[g] = clean[g]
    BY <1>4 DEF Delete, TypeOK
  <2>2. About(g)' = About(g)
    BY <1>1, <1>2, <1>4 DEF About, Concerns
  <2>3. QED
    BY <2>1, <2>2, OthersStay
<1>5. QED
  BY <1>3, <1>4

(* Logging in and launching decide anew which files are clean.             *)
LEMMA LoginOnItsWay ==
  ASSUME SyncInv, NEW g \in Files, NEW u \in Users, SignUp(u) \/ SignIn(u)
  PROVE  OnItsWay(g)'
<1>1. About(g)' = About(g) /\ disk' = disk /\ cloud' = cloud /\ user' = u
  BY DEF SignUp, SignIn, About
<1>2. clean'[g] => ~Busy(g) /\ disk[g] = cloud[u][g]
  BY DEF SignUp, SignIn, SyncInv, AccountsOnly
<1>3. QED
  BY <1>1, <1>2, BusyIsAbout DEF OnItsWay

LEMMA LaunchOnItsWay ==
  ASSUME SyncInv, NEW g \in Files, Launch
  PROVE  OnItsWay(g)'
<1> PICK list : list = Start("list", user, "all", saves)
  OBVIOUS
<1>1. SUFFICES ASSUME user' # NoUser, clean'[g]
               PROVE  \E t \in transfers' : About(g)' = {t} /\ Leads(t, g)'
  BY DEF OnItsWay
<1>2. /\ user' = user /\ user # NoUser /\ transfers' = {list}
      /\ disk' = disk /\ cloud' = cloud
      /\ cloud[user][g] # None \/ disk[g] = None
  BY <1>1 DEF Launch
<1>3. list.kind = "list" /\ list.uid = user
  BY DEF Start
<1>4. About(g)' = {list} /\ Leads(list, g)'
  BY <1>2, <1>3 DEF About, Concerns, Leads
<1>5. QED
  BY <1>2, <1>4

LEMMA UserStepOnItsWay ==
  ASSUME SyncInv, UserStep, NEW g \in Files
  PROVE  OnItsWay(g)'
<1>1. CASE SignOut
  BY <1>1 DEF SignOut, OnItsWay
<1>2. QED
  BY <1>1, SaveOnItsWay, DeleteOnItsWay, LoginOnItsWay, LaunchOnItsWay
     DEF UserStep

-----------------------------------------------------------------------------
(* The account's files are listed: a file that is there is downloaded, and *)
(* a clean file that is not there is not on the device either.             *)
LEMMA ListedOnItsWay ==
  ASSUME SyncInv, NEW g \in Files, NEW t \in transfers, Listed(t)
  PROVE  OnItsWay(g)'
<1> USE DEF SyncInv
<1> DEFINE new == Start("download", t.uid, g, t.made)
           there == {h \in Files : cloud[t.uid][h] # None}
<1>1. SUFFICES ASSUME user' # NoUser, clean'[g]
               PROVE  \/ About(g)' = {} /\ disk'[g] = cloud'[user'][g]
                      \/ \E x \in transfers' : About(g)' = {x} /\ Leads(x, g)'
  BY DEF OnItsWay
<1>2. t.kind = "list" /\ UNCHANGED <<user, disk, cloud, clean>>
  BY DEF Listed
<1>3. About(g) = {t} /\ Leads(t, g)
  BY <1>1, <1>2, OneTransfer DEF Concerns
<1>4. t.uid = user /\ (cloud[user][g] # None \/ disk[g] = None)
  BY <1>2, <1>3 DEF Leads
<1>5. About(g)' = IF g \in there THEN {new} ELSE {}
  <2>1. \A x : x \in transfers' <=>
          \/ x \in transfers \ {t}
          \/ \E h \in there : x = Start("download", t.uid, h, t.made)
    BY DEF Listed
  <2>2. \A x \in transfers \ {t} : ~Concerns(x, g)
    BY <1>3 DEF About
  <2>3. \A h : /\ Start("download", t.uid, h, t.made).file = h
               /\ Start("download", t.uid, h, t.made).kind = "download"
    BY DEF Start
  <2>4. \A h : Concerns(Start("download", t.uid, h, t.made), g) <=> h = g
    BY <2>3 DEF Concerns
  <2>5. QED
    BY <2>1, <2>2, <2>4 DEF About
<1>6. CASE g \in there
  <2>1. new \in transfers'
    BY <1>5, <1>6 DEF About
  <2>2. /\ new.kind = "download" /\ new.uid = t.uid /\ new.file = g
        /\ new.holds = None
    BY DEF Start
  <2>3. Leads(new, g)'
    <3> HIDE DEF new
    <3>1. QED
      BY <1>2, <1>4, <2>2 DEF Leads
  <2>4. QED
    BY <1>5, <1>6, <2>1, <2>3
<1>7. CASE g \notin there
  BY <1>2, <1>4, <1>5, <1>7
<1>8. QED
  BY <1>6, <1>7

(* A transfer of a file that ends or goes on is, for a clean file, the one *)
(* that stands in between; other files do not notice.                      *)
LEMMA TransferOnItsWay ==
  ASSUME SyncInv, NEW g \in Files, NEW t \in transfers,
         \/ ReadLocal(t) \/ Uploaded(t) \/ Removed(t) \/ ReadCloud(t)
         \/ Downloaded(t) \/ Fails(t)
  PROVE  OnItsWay(g)'
<1> USE DEF SyncInv
<1> DEFINE f == t.file
<1>1. t.kind # "list" /\ f \in Files /\ t.uid \in Users /\ user' = user
  BY DEF ReadLocal, Uploaded, Removed, ReadCloud, Downloaded, Fails, AccountsOnly,
         TypeOK
<1>2. \/ transfers' = transfers \ {t}
      \/ \E s : transfers' = (transfers \ {t}) \cup {[t EXCEPT !.holds = s]}
  BY DEF ReadLocal, Uploaded, Removed, ReadCloud, Downloaded, Fails
<1>3. \A s : /\ [t EXCEPT !.holds = s].file = f
             /\ [t EXCEPT !.holds = s].kind = t.kind
             /\ [t EXCEPT !.holds = s].uid = t.uid
             /\ [t EXCEPT !.holds = s].holds = s
  BY DEF TypeOK, Transfer
<1>4. CASE g # f
  <2>1. About(g)' = About(g)
    BY <1>1, <1>2, <1>3, <1>4 DEF About, Concerns
  <2>2. /\ disk'[g] = disk[g] /\ (user # NoUser => cloud'[user][g] = cloud[user][g])
        /\ clean'[g] = clean[g]
    BY <1>1, <1>4 DEF ReadLocal, Uploaded, Removed, ReadCloud, Downloaded, Fails,
                      TypeOK
  <2>3. QED
    BY <1>1, <2>1, <2>2, OthersStay
<1>5. ASSUME g = f, user' # NoUser, clean'[f]
      PROVE  \/ About(f)' = {} /\ disk'[f] = cloud'[user'][f]
             \/ \E x \in transfers' : About(f)' = {x} /\ Leads(x, f)'
  <2>1. ~Fails(t) /\ clean[f]
    BY <1>1, <1>5 DEF ReadLocal, Uploaded, Removed, ReadCloud, Downloaded, Fails,
                      TypeOK
  <2>2. About(f) = {t} /\ Leads(t, f)
    BY <1>1, <1>5, <2>1, OneTransfer DEF Concerns
  <2>3. CASE transfers' = transfers \ {t} /\ disk'[f] = cloud'[user'][f]
    BY <2>2, <2>3 DEF About
  <2>4. ASSUME NEW s, transfers' = (transfers \ {t}) \cup {[t EXCEPT !.holds = s]},
               Leads([t EXCEPT !.holds = s], f)'
        PROVE  \E x \in transfers' : About(f)' = {x} /\ Leads(x, f)'
    <3>1. About(f)' = {[t EXCEPT !.holds = s]}
      BY <1>3, <2>2, <2>4 DEF About, Concerns
    <3>2. QED
      BY <2>4, <3>1
  <2>5. CASE ReadLocal(t)
    BY <1>1, <1>3, <2>2, <2>4, <2>5 DEF ReadLocal, Leads
  <2>6. CASE ReadCloud(t)
    BY <1>1, <1>3, <2>2, <2>4, <2>6 DEF ReadCloud, Leads
  <2>7. CASE Uploaded(t)
    BY <1>1, <2>2, <2>3, <2>7 DEF Uploaded, Leads, TypeOK
  <2>8. CASE Removed(t)
    BY <1>1, <2>2, <2>3, <2>8 DEF Removed, Leads, TypeOK
  <2>9. CASE Downloaded(t)
    BY <1>1, <2>2, <2>3, <2>9 DEF Downloaded, Leads, TypeOK
  <2>10. QED
    BY <2>1, <2>5, <2>6, <2>7, <2>8, <2>9
<1>6. QED
  BY <1>4, <1>5 DEF OnItsWay

(* With the profile committed every local file is uploaded: once each.     *)
LEMMA ProfileOnItsWay ==
  ASSUME SyncInv, NEW g \in Files, NEW u \in Users, ProfileCommitted(u)
  PROVE  OnItsWay(g)'
<1> USE DEF SyncInv
<1> DEFINE present == {f \in Files : disk[f] # None}
<1> PICK new : new = Start("upload", user, g, disk[g])
  OBVIOUS
<1>1. UNCHANGED <<user, disk, cloud>>
  BY DEF ProfileCommitted
<1>2. CASE user = NoUser
  BY <1>1, <1>2 DEF OnItsWay
<1>3. CASE user # NoUser
  <2>1. \A x : x \in transfers' <=>
          \/ x \in transfers
          \/ \E f \in present : x = Start("upload", user, f, disk[f])
    BY <1>3 DEF ProfileCommitted
  <2>2. \A f : /\ Start("upload", user, f, disk[f]).file = f
               /\ Start("upload", user, f, disk[f]).kind = "upload"
    BY DEF Start
  <2>3. \A f : Concerns(Start("upload", user, f, disk[f]), g) <=> f = g
    BY <2>2 DEF Concerns
  <2>4. About(g)' = About(g) \cup (IF g \in present THEN {new} ELSE {})
    BY <2>1, <2>3 DEF About
  <2>5. CASE g \in present
    <3>1. SUFFICES ASSUME clean'[g]
                   PROVE  \E t \in transfers' : About(g)' = {t} /\ Leads(t, g)'
      BY DEF OnItsWay
    <3>2. About(g) = {}
      BY <1>3, <2>5, <3>1, BusyIsAbout DEF ProfileCommitted
    <3>3. new \in transfers' /\ About(g)' = {new}
      BY <2>1, <2>4, <2>5, <3>2
    <3>4. Leads(new, g)'
      BY <1>1 DEF Leads, Start
    <3>5. QED
      BY <3>3, <3>4
  <2>6. CASE g \notin present
    <3>1. About(g)' = About(g) /\ clean'[g] = clean[g]
      BY <2>4, <2>6 DEF ProfileCommitted
    <3>2. QED
      BY <1>1, <3>1, OthersStay
  <2>7. QED
    BY <2>5, <2>6
<1>4. QED
  BY <1>2, <1>3

LEMMA ServiceStepOnItsWay ==
  ASSUME SyncInv, ServiceStep \/ FailureStep, NEW g \in Files
  PROVE  OnItsWay(g)'
<1>1. ASSUME NEW t \in transfers, NEW got \in SUBSET Files, ListFails(t, got)
      PROVE  OnItsWay(g)'
  BY <1>1 DEF ListFails, OnItsWay
<1>2. ASSUME NEW u \in Users, ProfileFails(u) PROVE OnItsWay(g)'
  BY <1>2, OthersStay DEF ProfileFails, About, SyncInv
<1>3. QED
  BY <1>1, <1>2, ListedOnItsWay, TransferOnItsWay, ProfileOnItsWay
     DEF ServiceStep, FailureStep, Completes

THEOREM SyncInvInvariant == Spec => []SyncInv
<1>1. SyncInv /\ [Next]_vars => SyncInv'
  <2> SUFFICES ASSUME SyncInv, [Next]_vars PROVE SyncInv'
    OBVIOUS
  <2>1. CASE Next
    <3>1. TypeOK' /\ AccountsOnly'
      BY <2>1, UserStepTyped, ServiceStepTyped DEF Next
    <3>2. \A g \in Files : OnItsWay(g)'
      BY <2>1, UserStepOnItsWay, ServiceStepOnItsWay DEF Next
    <3>3. QED
      BY <3>1, <3>2 DEF SyncInv
  <2>2. CASE UNCHANGED vars
    BY <2>2 DEF vars, SyncInv, TypeOK, AccountsOnly, OnItsWay, About, Leads
  <2>3. QED
    BY <2>1, <2>2
<1>2. QED
  BY InitSync, <1>1, PTL DEF Spec

-----------------------------------------------------------------------------
(* Whoever logs in and out while they run, transfers are for accounts and  *)
(* carry saves that were made.                                             *)
THEOREM TypeCorrect == Spec => []TypeOK
<1>1. SyncInv => TypeOK
  BY DEF SyncInv
<1>2. QED
  BY SyncInvInvariant, <1>1, PTL

(* saveModel(), deleteFile(), signUp() and the launch between them leave a *)
(* file nothing has gone wrong with the same here and in the cloud, in     *)
(* whatever order the storage service runs their transfers.                *)
THEOREM QuietAlwaysSynced == Spec => []QuietMeansSynced
<1>1. SyncInv => QuietMeansSynced
  BY BusyIsAbout DEF SyncInv, OnItsWay, QuietMeansSynced
<1>2. QED
  BY SyncInvInvariant, <1>1, PTL
=============================================================================
