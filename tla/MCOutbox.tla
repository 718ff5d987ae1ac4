------------------------------ MODULE MCOutbox ------------------------------
EXTENDS Outbox

CONSTANTS m1, m2, w1, w2

=============================================================================
