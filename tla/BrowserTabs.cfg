\* Two people in two tabs of one browser, two calls at a time.
CONSTANTS
    ann = ann  bob = bob  left = left  right = right  c1 = c1  c2 = c2
    t1 = t1  t2 = t2  t3 = t3  t4 = t4
    None = None
    Users = {ann, bob}
    Tokens = {t1, t2, t3, t4}
    Tabs = {left, right}
    Calls = {c1, c2}
SPECIFICATION BrowserSpec
SYMMETRY Symmetry
INVARIANTS BrowserTypeOK CookiesAgree JarUsable LocalMatchesJar
PROPERTY RequestsInTurn
