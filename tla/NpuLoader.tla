----------------------------- MODULE NpuLoader ------------------------------
(* The model loader, drivers/misc/ameba_npu/ameba_npu_model_loader.c: from   *)
(* the partition record through the image header and the file record to the  *)
(* aligned copy in memory, in the unsigned arithmetic of its 32-bit fields.  *)
(*                                                                           *)
(* What the tables in flash hold is chosen as the loader reads them.         *)
(* External: malloc gives a block that lies within the address space.        *)
EXTENDS Integers

CONSTANTS
  Word,     \* 2^32: numbers are taken modulo Word
  Headers,  \* NPU_FLASH_MANIFEST_SIZE + NPU_FLASH_IMAGE_HEADER_SIZE
  Align     \* NPU_FLASH_MODEL_ALIGNMENT

\* the headers are not smaller than the padding: 4096 + 128 and 4096 - 1
ASSUME LoaderAssumption ==
  /\ Word \in Nat \ {0} /\ Headers \in Nat /\ Align \in Nat \ {0}
  /\ Headers < Word /\ Align - 1 <= Headers

Words == 0..Word - 1

VARIABLES
  ldPc,      \* where the load is
  ldLength,  \* partition->length
  ldImage,   \* content_size, the image header's imglen
  ldFile,    \* the file record: where it says the file is, and how long
  ldBlock,   \* what malloc was asked for: where the block is and its size
  ldModel    \* struct npu_flash_model

ldVars == <<ldPc, ldLength, ldImage, ldFile, ldBlock, ldModel>>

NoFile   == [offset |-> 0, length |-> 0]
NoBlock  == [at |-> 0, size |-> 0]
Unloaded == [alloc |-> 0, data |-> 0, size |-> 0]

LdTypeOK ==
  /\ ldPc \in {"idle", "partition", "image", "file"}
  /\ ldLength \in Words /\ ldImage \in Words
  /\ ldFile \in [offset : Words, length : Words]
  /\ ldBlock \in [at : Words, size : Words]
  /\ ldModel \in [alloc : Words, data : Words, size : Words]

LdInit ==
  /\ ldPc = "idle"
  /\ ldLength = 0 /\ ldImage = 0
  /\ ldFile = NoFile /\ ldBlock = NoBlock
  /\ ldModel = Unloaded

Minus(a, b) == (a - b) % Word
Plus(a, b)  == (a + b) % Word

\* ROUND_UP(value, alignment)
RoundedUp(a) == Plus(a, Align - 1) - (Plus(a, Align - 1) % Align)

\* npu_flash_model_load: what the model held is forgotten first
LdLoad ==
  /\ ldPc = "idle"
  /\ ldPc' = "partition"
  /\ ldLength' = 0 /\ ldImage' = 0 /\ ldFile' = NoFile /\ ldBlock' = NoBlock
  /\ ldModel' = Unloaded

\* find_nn_partition and the manifest
LdPartition ==
  /\ ldPc = "partition"
  /\ \/ ldPc' = "idle" /\ UNCHANGED ldLength
     \/ ldPc' = "image" /\ ldLength' \in Words
  /\ UNCHANGED <<ldImage, ldFile, ldBlock, ldModel>>

\* the image's type and length
LdImage ==
  /\ ldPc = "image"
  /\ \/ ldPc' = "idle" /\ UNCHANGED ldImage
     \/ /\ ldImage' \in 1..Word - 1
        /\ ldPc' = IF ldImage' > Minus(ldLength, Headers) THEN "idle" ELSE "file"
  /\ UNCHANGED <<ldLength, ldFile, ldBlock, ldModel>>

\* Mutant of InContent: the file's length is compared with the whole content.
InContentLoosely(file) ==
  file.length # 0 /\ file.offset <= ldImage /\ file.length <= ldImage

\* the negation of the range check, whose difference cannot wrap
InContent(file) ==
  file.length # 0 /\ file.offset <= ldImage /\ file.length <= Minus(ldImage, file.offset)

\* the aligned copy; malloc fails, or its block lies within the address space
LdCopy(file) ==
  LET size == Plus(file.length, Align - 1) IN
  \E at \in 1..Word - size :
    /\ at < Word
    /\ ldBlock' = [at |-> at, size |-> size]
    /\ ldModel' = [alloc |-> at, data |-> RoundedUp(at), size |-> file.length]

\* find_fwfs_file, the range check, malloc and the copy; each may fail
LdFile ==
  /\ ldPc = "file" /\ ldPc' = "idle"
  /\ \/ UNCHANGED <<ldFile, ldBlock, ldModel>>
     \/ \E offset, length \in Words :
          /\ InContent([offset |-> offset, length |-> length])
          /\ ldFile' = [offset |-> offset, length |-> length]
          /\ LdCopy(ldFile')
  /\ UNCHANGED <<ldLength, ldImage>>

\* npu_flash_model_unload
LdUnload ==
  /\ ldPc = "idle"
  /\ ldModel' = Unloaded
  /\ UNCHANGED <<ldPc, ldLength, ldImage, ldFile, ldBlock>>

LdNext == LdLoad \/ LdPartition \/ LdImage \/ LdFile \/ LdUnload

LdSpec == LdInit /\ [][LdNext]_ldVars

-----------------------------------------------------------------------------
(* A model that was loaded is a whole file of its partition, copied to an    *)
(* aligned place that lies within the allocated block: none of the unsigned  *)
(* differences and sums wraps around.  This is so for a partition that has   *)
(* room for its own two headers, which the loader takes on trust; and since  *)
(* those are not smaller than the padding, the size asked of malloc does not *)
(* wrap either, however long the file is.                                    *)
LdCopyIsTheFile ==
  ldModel # Unloaded /\ ldLength >= Headers =>
    /\ Headers + ldFile.offset + ldModel.size <= ldLength
    /\ ldModel.size = ldFile.length /\ ldModel.size > 0
    /\ ldModel.data % Align = 0
    /\ ldBlock.at <= ldModel.data
    /\ ldModel.data + ldModel.size <= ldBlock.at + ldBlock.size

=============================================================================
