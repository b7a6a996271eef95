----------------------------- MODULE MC_BulkPort -----------------------------
\* TLC instance of BulkPort: three packets to a media packet, replies shorter
\* than a packet and of a whole one, reads and writes of one to three media
\* packets.
EXTENDS BulkPort

MC_Commands ==
  {[kind |-> "none", size |-> 0], [kind |-> "refused", size |-> 0]}
    \cup [kind : {"reply"}, size : {1, 2}]
    \cup [kind : {"read", "write"}, size : {Media, 2 * Media, 3 * Media}]

=============================================================================
