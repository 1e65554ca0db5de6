\* Two accounts, two requests of a kind, three posts, two menus.
SPECIFICATION FairSpec
CONSTANTS
  ann = ann
  bob = bob
  NoUser = NoUser
  Accounts = {ann, bob}
  MaxAsked = 1
  MaxPosted = 3
  MaxListeners = 2
INVARIANTS TypeOK SessionFollowsAuth FreshMenuShowsUser
PROPERTIES SignInIsShown
