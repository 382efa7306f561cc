SPECIFICATION FairSpec
CONSTANT Retries = 5
INVARIANT TypeOK
PROPERTIES OutageRidden ServiceResumes
