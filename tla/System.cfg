\* Three requests, all tasks of the start; three folders.
SPECIFICATION Spec
PROPERTIES
    StartsRight
    StorageIsSound
CHECK_DEADLOCK FALSE
