\* One person, one tab, one call at a time, over a network that may lose it.
CONSTANTS
    ann = ann  bob = bob  left = left  right = right  c1 = c1  c2 = c2
    t1 = t1  t2 = t2  t3 = t3  t4 = t4
    None = None
    Users = {ann}
    Tokens = {t1, t2, t3}
    Tabs = {left}
    Calls = {c1}
SPECIFICATION BrowserSpec
PROPERTY LogoutClearsCredentials
