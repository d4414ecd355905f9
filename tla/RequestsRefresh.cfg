SPECIFICATION FairSpec
CONSTANTS
  t1 = t1
  t2 = t2
  phone = phone
  NoDevice = NoDevice
  Tabs = {t1, t2}
  Authenticators = {phone}
  MaxCeremony = 2
PROPERTY
  RefreshCures
