\* Four requests: two for one page, two more that share their domain.
SPECIFICATION BrowserSpec
CONSTANTS
  r1 = r1 r2 = r2 r3 = r3 r4 = r4 u1 = u1 u2 = u2 u3 = u3 d1 = d1 d2 = d2
  Req = {r1, r2, r3, r4}
  Url = {u1, u2, u3}
  UrlOf <- Urls
  Domain = {d1, d2}
  DomainOf <- Domains
  GlobalSlots = 2
  DomainSlots = 1
  NoReq = NoReq
  Slow = {d1}
INVARIANTS
  RequestsKeepApart
  NoObjectWithoutUsers
  BrowserServesItsUsers
PROPERTIES
  SlowDomainBlocksNoOther
