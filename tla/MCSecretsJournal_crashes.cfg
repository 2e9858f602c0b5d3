SPECIFICATION Spec
CONSTANTS
    Processes = {p1}
    Readers = {}
    FileSets <- EnrollmentFiles
    MaxGen = 3
    MaxCrashes = 3
PROPERTIES
    FilesCommitTogether
