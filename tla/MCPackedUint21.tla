---------------------------- MODULE MCPackedUint21 ----------------------------
\* The numbers around every change of length and around the limit, and every
\* short octet string over the octets that matter: empty and full septets with
\* and without the continuation bit.  As tails, what may stand behind STREAM_RAW:
\* frames to send, and received ones cut at every octet.
EXTENDS StreamRaw

MCNumbers == {0, 1, 2, 113, 126, 127, 128, 129, 255, 256, 16382, 16383, 16384, 16385,
              2086908, 2097150, 2097151, 2097152, 2097153}

MCPsdus == {<<>>, <<3, 8, 1, 255, 255, 255, 255, 7, 100, 101>>}
MCTxMetadata ==
    {[channel |-> c, maxCsmaBackoffs |-> 1, maxFrameRetries |-> 4, enableCsmaCa |-> TRUE,
      isHeaderUpdated |-> TRUE, isARetransmit |-> FALSE, isSecurityProcessed |-> TRUE,
      txDelay |-> 0, txDelayBaseTime |-> d, rxChannelAfterTx |-> c, txPower |-> -8] :
       c \in {11, 26}, d \in {0, 65537}}
MCRxMetadata == {<<200, 156, 1, 0, 0, 0, 20, 255, 1, 2, 3, 4, 5, 6, 7, 8, 9>>,
                 <<127, 128, 0, 0, 0, 128, 11, 0, 0, 0, 0, 0, 0, 0, 0, 0, 0, 34, 51>>}

MCTails ==
         {<<>>, <<0>>, <<171, 205>>}
    \cup {RustTx(psdu, m) : psdu \in MCPsdus, m \in MCTxMetadata}
    \cup {PyTx(psdu, m) : psdu \in MCPsdus, m \in MCTxMetadata}
    \cup UNION {{SubSeq(Received(psdu, m), 1, n) : n \in 0 .. Len(Received(psdu, m))} :
                  psdu \in MCPsdus, m \in MCRxMetadata}

Edge == {0, 1, 127, 128, 129, 255}

MCNoise == {<<>>} \cup [1 .. 1 -> Edge] \cup [1 .. 2 -> Edge]
           \cup [1 .. 3 -> Edge] \cup [1 .. 4 -> Edge]
===============================================================================
