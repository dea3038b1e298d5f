SPECIFICATION FairSpec
CONSTANTS
    adm = adm
    goo = goo
    r1 = r1
    r2 = r2
    k1 = k1
    k2 = k2
    p1 = p1
    NoUser = NoUser
    NoToken = NoToken
    NoPassword = NoPassword
    User = {adm, goo}
    Local = adm
    Role = {"user", "admin"}
    Request = {r1, r2}
    Token = {k1}
    Password = {p1}
PROPERTIES LastAdminKept RevokedRightsLapse
