SPECIFICATION FairSpec
CONSTANTS
  t1 = t1
  t2 = t2
  r1 = r1
  r2 = r2
  c1 = c1
  c2 = c2
  Text = {t1}
  Request = {r1, r2}
  Call = {c1, c2}
  Unset = Unset
  MaxEdits = 1
  MaxMails = 1
  MaxCrashes = 1
CHECK_DEADLOCK FALSE
INVARIANTS TypeOK AtMostOneMail RejectedNeverSent
PROPERTIES MailIsOneEffect SendSettles
