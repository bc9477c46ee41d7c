CONSTANTS
  Invoices = {i1}
  Sessions = {s1, s2}
  Requests = {r1, r2}
  NoSession = NoSession
  MaxPayments = 2
SPECIFICATION Spec
SYMMETRY Symmetry
INVARIANTS
  TypeOK
  RecordedMeansPaid
  SerialPaymentsRefused
  SessionRecordedOnce
  StripePaymentsAreBacked
