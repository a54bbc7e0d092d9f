SPECIFICATION TransactionsSpec
CONSTANTS
  Txs = {t1, t2, t3}
INVARIANTS DeadlockIsEntryWithApproval
PROPERTIES CommitsAdmit EntrySettles TransactionsEnd
