\* Updates and acknowledgements through a store of two entries per type; the
\* id counter wraps after three messages and up to six are sent, enough for
\* a reissued update id to meet its still stored entry (the abort).  The
\* store is passive: once the senders' budget is spent, or after the abort,
\* nothing more happens, so the end of a behaviour is not a deadlock.
CONSTANTS
    Types = {"Upd", "Ack"}
    Wrap = 3
    MaxSize = 2
    MaxMsgs = 6
    MaxResend = 2
SPECIFICATION Spec
CHECK_DEADLOCK FALSE
INVARIANTS TypeOK RecentKept
