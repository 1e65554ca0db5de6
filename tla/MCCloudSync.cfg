\* Two users, one file, two saves: every order of transfers and failures.
SPECIFICATION FairSpec
CONSTANTS
  ann = ann
  bob = bob
  fX = fX
  fY = fY
  NoUser = NoUser
  Users = {ann, bob}
  Files = {fX}
  MaxSaves = 2
INVARIANTS TypeOK 
 
