\* Two requests at a time on two accounts of one organization, and their tokens.
CONSTANTS
    u1 = u1  u2 = u2  f1 = f1  f2 = f2  k1 = k1  k2 = k2  k3 = k3  s1 = s1  s2 = s2
    mail = mail  post = post  mine = mine  yours = yours  acme = acme
    Users = {u1, u2}
    Tokens = {k1, k2, k3}
    Families = {f1, f2}
    Slots = {s1, s2}
    Addresses = {mail, post}
    Passwords = {mine, yours}
    Organizations = {acme}
    MaxChanges = 2
    Forms <- TwoForOneAddress
    NoToken = NoToken
    NoRequest = NoRequest
    NoAccount = NoAccount
    NoCall = NoCall
    NoPassword = NoPassword
SPECIFICATION ASpec
SYMMETRY Symmetry
INVARIANTS
    ExchangedIsRevoked
    ExchangedOnceInTurn
    OneLivePerFamily
    EndedFamiliesStayDead
    OneAccountPerAddress
    TokensAreOwn
PROPERTIES
    ImplementsTokens
