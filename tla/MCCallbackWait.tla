--------------------------- MODULE MCCallbackWait ----------------------------
\* The waits of one run on one address: two calls, two rounds, a timeout of one tick and two
\* pauses, the calls served on the run's loop or on a thread of their own.
EXTENDS CallbackWait
=============================================================================
