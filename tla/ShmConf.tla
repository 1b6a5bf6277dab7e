------------------------------ MODULE ShmConf -------------------------------
(***************************************************************************)
(* transport/shm/core/shm_conf.cpp: how large a segment is that can carry  *)
(* messages of a given size.  A configuration is given by its ceiling, the *)
(* other three fields of ShmConf follow from it.                           *)
(***************************************************************************)
EXTENDS Integers

KB == 1024
EXTRA_SIZE        == 4 * KB
STATE_SIZE        == KB
BLOCK_SIZE        == KB
MESSAGE_INFO_SIZE == KB

MESSAGE_SIZE_16K  == 16 * KB
MESSAGE_SIZE_128K == 128 * KB
MESSAGE_SIZE_1M   == 1024 * KB
MESSAGE_SIZE_8M   == 8192 * KB
MESSAGE_SIZE_16M  == 16384 * KB
MESSAGE_SIZE_MORE == 32768 * KB

CeilingSize == {MESSAGE_SIZE_16K, MESSAGE_SIZE_128K, MESSAGE_SIZE_1M,
                MESSAGE_SIZE_8M, MESSAGE_SIZE_16M, MESSAGE_SIZE_MORE}

\* The smallest ceiling that is large enough, and the largest one for
\* messages that are larger than all of them.
GetCeilingMessageSize(real_msg_size) ==
    IF real_msg_size > MESSAGE_SIZE_MORE THEN MESSAGE_SIZE_MORE
    ELSE CHOOSE c \in CeilingSize :
            real_msg_size <= c /\ \A d \in CeilingSize : real_msg_size <= d => c <= d

GetBlockBufSize(ceiling) == ceiling + MESSAGE_INFO_SIZE

GetBlockNum(ceiling) ==
    CASE ceiling = MESSAGE_SIZE_16K  -> 512
      [] ceiling = MESSAGE_SIZE_128K -> 128
      [] ceiling = MESSAGE_SIZE_1M   -> 64
      [] ceiling = MESSAGE_SIZE_8M   -> 32
      [] ceiling = MESSAGE_SIZE_16M  -> 16
      [] ceiling = MESSAGE_SIZE_MORE -> 8

managed_shm_size(ceiling) ==
    EXTRA_SIZE + STATE_SIZE + (BLOCK_SIZE + GetBlockBufSize(ceiling)) * GetBlockNum(ceiling)
=============================================================================
