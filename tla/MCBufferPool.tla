---------------------------- MODULE MCBufferPool ----------------------------
(* Small configurations for TLC, the oversized ones included.              *)
EXTENDS BufferPool

MCConfigs == {Config(size, max, min) :
                 size \in {1, BUF_MAX_SIZE + 1}, max \in {1, 2}, min \in 0 .. 2}
=============================================================================
