\* Two users, and three requests at a time: a login and both calls of a
\* registration can race; up to three personal information screens, so that an
\* older one's listener is around when a newer one is in front.
CONSTANTS
    Users = {u1, u2}
    NoUser = NoUser
    MaxRequests = 3
    MaxPersonal = 3
SPECIFICATION Spec
INVARIANTS
    TypeOK
    OnlyProvedUsersAreNamed
    ProfilesAreTheirOwners
    UidFollowsAuth
    PersonalScreenAgrees
    TabIsTheKeychainUsers
SYMMETRY Symmetry
