----------------------- MODULE MCNotificationReceipts -----------------------
(***************************************************************************)
(* Three requests about up to three events, with room for two receipts:    *)
(* one has to go when the third request comes while both are held.         *)
(***************************************************************************)
EXTENDS NotificationReceipts

CONSTANTS c1, c2, c3, e1, e2, e3, t1, t2

MCCallers  == {c1, c2, c3}
MCEvents   == {e1, e2, e3}
MCChannels == {t1, t2}
=============================================================================
