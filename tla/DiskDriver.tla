----------------------------- MODULE DiskDriver -----------------------------
(***************************************************************************)
(* The disk driver: read_disk and write_disk of source/fs.c, which cut a   *)
(* stretch of bytes into sectors, and the conversion of a sector's number  *)
(* into cylinder, head and sector (source/hw86.s).                         *)
(*                                                                         *)
(* A step is a call of read_disk_sector or write_disk_sector, which may    *)
(* fail with an error code after any number of sectors, and what the       *)
(* driver does with its result.  The BIOS and the disk are external.       *)
(***************************************************************************)
EXTENDS Naturals, Sequences, Ulib

CONSTANTS
  SECTOR_SIZE,
  DSECTS, DSIDES,   (* Sectors of a track, sides of the disk.              *)
  TRACKS,           (* Tracks that a byte can tell apart, 256 in the code. *)
  BLOCKS,           (* Blocks of the file system, a sector each.           *)
  LONGEST,          (* Longest stretch asked for.                          *)
  WORD,             (* Values of a uint.                                   *)
  ErrorCodes,       (* What the BIOS returns in ax when it fails.          *)
  REQUESTS,         (* Bound: calls.                                       *)
  DriverCalm        (* Windows that do not occur.                          *)

DMA_ERROR == 2304   (* 0x900: the buffer crosses a 64 KB boundary.         *)

(* write_disk cannot read a sector and can write it; or can do neither and *)
(* the sum of the two error codes is 0.                                    *)
DriverWindows == {"stale", "twice"}

ASSUME DriveAssumption   == {SECTOR_SIZE, DSECTS, DSIDES, TRACKS, BLOCKS} \subseteq Nat \ {0}
ASSUME TrackAssumption   == BLOCKS <= DSECTS * DSIDES * TRACKS
ASSUME CodeAssumption    == WORD \in Nat \ {0} /\ ErrorCodes \subseteq 1 .. WORD - 1
ASSUME RequestAssumption == {LONGEST, REQUESTS} \subseteq Nat
ASSUME DriverAssumption  == DriverCalm \subseteq DriverWindows

VARIABLES
  surface,       (* surface[n]: the bytes of the n-th sector of the disk   *)
  disk_buff,
  user_buff,     (* the caller's buffer                                    *)
  xfer,          (* the call in progress: its parameters and variables     *)
  reply,         (* what the last call returned                            *)
  requests

dvars == <<surface, disk_buff, user_buff, xfer, reply, requests>>

Sectors == 0 .. DSECTS * DSIDES * TRACKS - 1
Bytes   == 0 .. SECTOR_SIZE - 1

(* disk_lba_to_hts: the track is kept in a byte.  The BIOS finds the       *)
(* sector by the three, and those behind it by themselves.                 *)
disk_lba_to_hts(sector) ==
  [track  |-> ((sector \div DSECTS) \div DSIDES) % TRACKS,
   side   |-> (sector \div DSECTS) % DSIDES,
   sector |-> (sector % DSECTS) + 1]
Located(hts) == (hts.track * DSIDES + hts.side) * DSECTS + hts.sector - 1
Place(sector) == Located(disk_lba_to_hts(sector))

CopiedInto(dst, to, src, from, n) ==
  [k \in DOMAIN dst |-> IF k \in to .. to + n - 1 THEN src[from + k - to] ELSE dst[k]]

Sum(a, b) == (a + b) % WORD
NoTransfer == [op |-> "none", step |-> "idle", at |-> 0, length |-> 0, sector |-> 0,
         offset |-> 0, size |-> 0, i |-> 0, n |-> 0, result |-> 0]

(* What the k-th byte of the n-th request to write is.                     *)
Fresh(n, k) == <<n, k>>

DiskInit ==
  /\ surface = [s \in Sectors |-> [b \in Bytes |-> <<0, s * SECTOR_SIZE + b>>]]
  /\ disk_buff = [b \in Bytes |-> <<0, 0>>]
  /\ user_buff = [k \in 0 .. LONGEST - 1 |-> <<0, 0>>]
  /\ xfer = NoTransfer /\ reply = [ok |-> FALSE, data |-> <<>>] /\ requests = 0

-----------------------------------------------------------------------------
(* The call: its first sector, and the offset in it.  A disk that is not   *)
(* there, or no buffer, ends it.                                           *)
CallDisk(op, block, offset, size, present) ==
  /\ xfer = NoTransfer /\ requests < REQUESTS
  /\ requests' = requests + 1
  /\ user_buff' = IF op = "write" THEN [k \in DOMAIN user_buff |-> Fresh(requests', k)] ELSE user_buff
  /\ xfer' = [NoTransfer EXCEPT
                 !.op = op, !.at = block * SECTOR_SIZE + offset, !.length = size,
                 !.step = IF ~present THEN "end" ELSE IF offset % SECTOR_SIZE > 0 THEN "head" ELSE "whole",
                 !.result = IF present THEN 0 ELSE 1,
                 !.sector = block + offset \div SECTOR_SIZE,
                 !.offset = offset % SECTOR_SIZE, !.size = size]
  /\ reply' = [ok |-> FALSE, data |-> <<>>]
  /\ UNCHANGED <<surface, disk_buff>>

(* How a transfer of n sectors may end: its code, and the sectors done.    *)
Outcomes(n) == {<<0, n>>} \cup (ErrorCodes \X (0 .. n - 1))

ReadSectors(sector, n) ==
  [k \in 0 .. n * SECTOR_SIZE - 1 |-> surface[Place(sector) + k \div SECTOR_SIZE][k % SECTOR_SIZE]]
Written(sector, n, src, from) ==
  [s \in Sectors |-> IF s \in Place(sector) .. Place(sector) + n - 1
                     THEN [b \in Bytes |-> src[from + (s - Place(sector)) * SECTOR_SIZE + b]]
                     ELSE surface[s]]

At(op, step) == xfer.op = op /\ xfer.step = step
HeadSize == Least(SECTOR_SIZE - xfer.offset, xfer.size)

(* The unaligned stretch before the first whole sector, or behind the last *)
(* one, is copied out of disk_buff, whether it has been read or not.       *)
ReadPart == \E o \in Outcomes(1) :
  /\ At("read", "head") \/ At("read", "tail")
  /\ disk_buff' = IF o[1] = 0 THEN ReadSectors(xfer.sector, 1) ELSE disk_buff
  /\ IF xfer.step = "head"
     THEN /\ user_buff' = CopiedInto(user_buff, 0, disk_buff', xfer.offset, HeadSize)
          /\ xfer' = [xfer EXCEPT !.step = "whole", !.result = o[1], !.i = HeadSize,
                                  !.sector = @ + 1, !.size = @ - HeadSize]
     ELSE /\ user_buff' = CopiedInto(user_buff, xfer.i, disk_buff', 0, xfer.size)
          /\ xfer' = [xfer EXCEPT !.step = "end", !.result = o[1]]
  /\ UNCHANGED <<surface, reply, requests>>

(* write_disk changes the part in disk_buff and writes that back, whether  *)
(* it has been read or not.                                                *)
FetchPart == \E o \in Outcomes(1) :
  /\ At("write", "head") \/ At("write", "tail")
  /\ LET read == IF o[1] = 0 THEN ReadSectors(xfer.sector, 1) ELSE disk_buff
     IN  disk_buff' = IF xfer.step = "head" THEN CopiedInto(read, xfer.offset, user_buff, 0, HeadSize)
                                            ELSE CopiedInto(read, 0, user_buff, xfer.i, xfer.size)
  /\ xfer' = [xfer EXCEPT !.step = IF xfer.step = "head" THEN "headback" ELSE "tailback",
                          !.result = Sum(@, o[1])]
  /\ UNCHANGED <<surface, user_buff, reply, requests>>

StorePart == \E o \in Outcomes(1) :
  /\ At("write", "headback") \/ At("write", "tailback")
  /\ "stale" \in DriverCalm => ~(xfer.result # 0 /\ o[1] = 0)
  /\ "twice" \in DriverCalm => ~(xfer.result # 0 /\ Sum(xfer.result, o[1]) = 0)
  /\ surface' = Written(xfer.sector, o[2], disk_buff, 0)
  /\ xfer' = IF xfer.step = "headback"
             THEN [xfer EXCEPT !.step = "whole", !.result = Sum(@, o[1]), !.i = HeadSize,
                               !.sector = @ + 1, !.size = @ - HeadSize]
             ELSE [xfer EXCEPT !.step = "end", !.result = Sum(@, o[1])]
  /\ UNCHANGED <<disk_buff, user_buff, reply, requests>>

(* Whole sectors, all at once; when the BIOS cannot because of where the   *)
(* buffer lies, one by one through disk_buff.                              *)
Whole == xfer.size \div SECTOR_SIZE
SectorsDone(x, n, result) ==
  [x EXCEPT !.step = "rest", !.result = result, !.sector = @ + n,
            !.i = @ + n * SECTOR_SIZE, !.size = @ - n * SECTOR_SIZE]

TransferWhole == \E o \in Outcomes(Whole) :
  /\ xfer.step = "whole" /\ xfer.result = 0 /\ Whole > 0
  /\ IF xfer.op = "read"
     THEN /\ user_buff' = CopiedInto(user_buff, xfer.i, ReadSectors(xfer.sector, o[2]), 0, o[2] * SECTOR_SIZE)
          /\ UNCHANGED surface
     ELSE /\ surface' = Written(xfer.sector, o[2], user_buff, xfer.i)
          /\ UNCHANGED user_buff
  /\ xfer' = IF o[1] = DMA_ERROR THEN [xfer EXCEPT !.step = "single", !.n = Whole]
                                 ELSE SectorsDone(xfer, Whole, o[1])
  /\ UNCHANGED <<disk_buff, reply, requests>>

Single_stays(x, result) == [SectorsDone(x, 1, result) EXCEPT !.step = "single", !.n = x.n - 1, !.i = x.i]
Single(x, result) == [SectorsDone(x, 1, result) EXCEPT !.step = "single", !.n = x.n - 1]
TransferSingle ==
  /\ xfer.step = "single"
  /\ IF xfer.n = 0
     THEN /\ xfer' = [xfer EXCEPT !.step = "rest"]
          /\ UNCHANGED <<surface, user_buff, disk_buff>>
     ELSE \E o \in Outcomes(1) :
            /\ IF xfer.op = "read"
               THEN /\ disk_buff' = IF o[1] = 0 THEN ReadSectors(xfer.sector, 1) ELSE disk_buff
                    /\ user_buff' = IF o[1] = 0 THEN CopiedInto(user_buff, xfer.i, disk_buff', 0, SECTOR_SIZE)
                                  ELSE user_buff
                    /\ UNCHANGED surface
               ELSE /\ disk_buff' = CopiedInto(disk_buff, 0, user_buff, xfer.i, SECTOR_SIZE)
                    /\ surface' = Written(xfer.sector, o[2], disk_buff', 0)
                    /\ UNCHANGED user_buff
            /\ xfer' = IF o[1] # 0 THEN [xfer EXCEPT !.step = "rest", !.result = o[1]]
                                   ELSE Single(xfer, 0)
  /\ UNCHANGED <<reply, requests>>

(* On to the part behind the whole sectors, or to the end.                 *)
GoOn ==
  /\ \/ xfer.step = "whole" /\ (xfer.result # 0 \/ Whole = 0)
     \/ xfer.step = "rest"
  /\ xfer' = [xfer EXCEPT !.step = IF xfer.size > 0 /\ xfer.result = 0 THEN "tail" ELSE "end"]
  /\ UNCHANGED <<surface, disk_buff, user_buff, reply, requests>>

Return ==
  /\ xfer.step = "end"
  /\ reply' = [ok |-> xfer.result = 0, data |-> [k \in 1 .. xfer.length |-> user_buff[k - 1]]]
  /\ xfer' = NoTransfer
  /\ UNCHANGED <<surface, disk_buff, user_buff, requests>>

DiskNext ==
  \/ \E op \in {"read", "write"}, block \in 0 .. BLOCKS - 1,
        offset \in 0 .. SECTOR_SIZE, size \in 1 .. LONGEST, present \in BOOLEAN :
       /\ block * SECTOR_SIZE + offset + size <= BLOCKS * SECTOR_SIZE
       /\ CallDisk(op, block, offset, size, present)
  \/ ReadPart \/ FetchPart \/ StorePart \/ TransferWhole \/ TransferSingle \/ GoOn \/ Return

DiskSpec == DiskInit /\ [][DiskNext]_dvars

-----------------------------------------------------------------------------
(* The bytes of the file system, the request of the call in progress.      *)
ByteAt(a)    == surface[a \div SECTOR_SIZE][a % SECTOR_SIZE]
StoreBytes   == [a \in 0 .. BLOCKS * SECTOR_SIZE - 1 |-> ByteAt(a)]
Wanted(k)    == IF xfer.op = "write" THEN Fresh(requests, k - 1) ELSE <<0, 0>>
StoreRequest == IF xfer = NoTransfer THEN [op |-> "none", at |-> 0, data |-> <<>>]
                ELSE [op |-> xfer.op, at |-> xfer.at, data |-> [k \in 1 .. xfer.length |-> Wanted(k)]]

(* However a stretch falls on sectors and whatever transfers fail, the     *)
(* driver is a store of bytes: a call that reports success has read or     *)
(* written just its bytes, one that fails has touched no others.           *)
S == INSTANCE ByteStore WITH bytes <- StoreBytes, request <- StoreRequest, answer <- reply
ImplementsStore == S!Spec
=============================================================================
