\* README.md:28 against a download that comes after a failed upload.
SPECIFICATION Spec
CONSTANTS
  ann = ann
  bob = bob
  fX = fX
  fY = fY
  NoUser = NoUser
  Users = {ann}
  Files = {fX}
  MaxSaves = 2
INVARIANTS DeviceKeepsLastSave
